---- MODULE Spec2Model ----
(***************************************************************************)
(* t402 (python): the SVM exact-payment facilitator scheme,                *)
(* ExactSvmFacilitatorScheme.verify / .settle of t402/svm.py, with the     *)
(* transaction parsers they use and the FacilitatorSvmSigner protocol as   *)
(* the environment.  One call is in flight at a time; every `await` on the *)
(* signer is a step of its own.                                            *)
(***************************************************************************)
EXTENDS Integers, Sequences, FiniteSets, TLC

(***************************************************************************)
(* Bounds of the model.                                                    *)
(***************************************************************************)
\* largest token amount carried by an instruction or asked by requirements
MaxAmount == 2
\* largest number of instructions in a submitted transaction
MaxInstructions == 2

(***************************************************************************)
(* Constants of svm.py.                                                    *)
(***************************************************************************)
SCHEME_EXACT == "exact"
SOLANA_MAINNET == "solana:5eykt4UsFv8P8NJdTREpY1vzqKqZKvdp"
SOLANA_DEVNET == "solana:EtWTRABZaYq6iMfeYKouRu166VU2xqa1"
SOLANA_TESTNET == "solana:4uhcVJyU9pJkvQyS88uRDiswHXSCkY3z"
SOLANA_MAINNET_V1 == "solana"
SOLANA_DEVNET_V1 == "solana-devnet"
SOLANA_TESTNET_V1 == "solana-testnet"
TOKEN_PROGRAM_ADDRESS == "TokenkegQfeZyiNwAJbNbGKPFXCWuBvf9Ss623VQ5DA"
TOKEN_2022_PROGRAM_ADDRESS == "TokenzQdBNbLqP5VEhdkAS6EPFLC1PHnBqCXEpPxuEb"
COMPUTE_BUDGET_PROGRAM_ADDRESS == "ComputeBudget111111111111111111111111111111"
\* the instruction discriminator of TransferChecked
TRANSFER_CHECKED == 12

V1_TO_V2_NETWORK_MAP ==
    [n \in {SOLANA_MAINNET_V1, SOLANA_DEVNET_V1, SOLANA_TESTNET_V1} |->
        CASE n = SOLANA_MAINNET_V1 -> SOLANA_MAINNET
          [] n = SOLANA_DEVNET_V1 -> SOLANA_DEVNET
          [] OTHER -> SOLANA_TESTNET]

normalize_network(network) ==
    IF network \in DOMAIN V1_TO_V2_NETWORK_MAP
    THEN V1_TO_V2_NETWORK_MAP[network]
    ELSE network

(***************************************************************************)
(* Python values.  None is "<None>" wherever a string is expected; a dict  *)
(* is a function whose DOMAIN is its key set, and d.get(k, default) is     *)
(* Get(d, k, default).  A value that may be a dict or None is a tagged     *)
(* record.                                                                 *)
(***************************************************************************)
None == "<None>"
EmptyDict == [k \in {} |-> None]
Get(d, k, default) == IF k \in DOMAIN d THEN d[k] ELSE default
\* Python truthiness of an Optional[str]
Falsy(s) == s \in {None, ""}

(***************************************************************************)
(* Decimal strings are sequences of characters; int(s) raises ValueError   *)
(* unless s is a non-empty run of digits.                                  *)
(***************************************************************************)
Digits == <<"0", "1", "2", "3", "4", "5", "6", "7", "8", "9">>
DigitChars == {Digits[i] : i \in 1..10}
DigitValue(c) == (CHOOSE i \in 1..10 : Digits[i] = c) - 1

RECURSIVE DigitsValue(_)
DigitsValue(s) ==
    IF s = <<>> THEN 0
    ELSE 10 * DigitsValue(SubSeq(s, 1, Len(s) - 1)) + DigitValue(s[Len(s)])

\* int(s): [ok |-> TRUE, value |-> n], or [ok |-> FALSE] for ValueError
PyInt(s) ==
    IF s # <<>> /\ \A i \in 1..Len(s) : s[i] \in DigitChars
    THEN [ok |-> TRUE, value |-> DigitsValue(s)]
    ELSE [ok |-> FALSE]

RECURSIVE PyStr(_)
\* str(n) of a natural number
PyStr(n) ==
    IF n < 10 THEN <<Digits[n + 1]>>
    ELSE PyStr(n \div 10) \o <<Digits[(n % 10) + 1]>>

(***************************************************************************)
(* Transactions.  A decoded VersionedTransaction is its message:           *)
(* account_keys and compiled instructions whose program_id_index and       *)
(* accounts are 0-based indices into account_keys and whose data is a      *)
(* byte sequence.  payload["payload"]["transaction"] is                    *)
(*   [tag |-> "tx", account_keys, instructions]  a well-formed transaction *)
(*   [tag |-> "garbage"]                         a string that is none     *)
(*   [tag |-> "empty"]                           the empty string          *)
(***************************************************************************)
\* account_keys[i] of Python (0-based)
Key(account_keys, i) == account_keys[i + 1]

RECURSIVE FromBytesLittle(_)
\* int.from_bytes(b, "little")
FromBytesLittle(b) ==
    IF b = <<>> THEN 0 ELSE b[1] + 256 * FromBytesLittle(Tail(b))

RECURSIVE ToBytesLittle(_, _)
\* n.to_bytes(len, "little")
ToBytesLittle(n, len) ==
    IF len = 0 THEN <<>> ELSE <<n % 256>> \o ToBytesLittle(n \div 256, len - 1)

\* the solana and solders packages are installed
SOLANA_AVAILABLE == TRUE

\* decode_versioned_transaction raises ValueError on anything but a
\* well-formed transaction; each caller below catches it and returns None
Decodes(tx_base64) == tx_base64.tag = "tx"

RECURSIVE TokenPayerFrom(_, _, _)
TokenPayerFrom(account_keys, instructions, i) ==
    IF i > Len(instructions) THEN None
    ELSE LET ix == instructions[i]
             program_idx == ix.program_id_index
         IN  IF program_idx >= Len(account_keys)
             THEN TokenPayerFrom(account_keys, instructions, i + 1)
             ELSE IF /\ Key(account_keys, program_idx) \in
                            {TOKEN_PROGRAM_ADDRESS, TOKEN_2022_PROGRAM_ADDRESS}
                     /\ Len(ix.accounts) >= 3
                     /\ ix.accounts[3] < Len(account_keys)
                  THEN Key(account_keys, ix.accounts[3])
                  ELSE TokenPayerFrom(account_keys, instructions, i + 1)

get_token_payer_from_transaction(tx_base64) ==
    IF ~SOLANA_AVAILABLE \/ ~Decodes(tx_base64) THEN None
    ELSE TokenPayerFrom(tx_base64.account_keys, tx_base64.instructions, 1)

\* str(account_keys[idx]) if idx < len(account_keys) else ""
KeyOrEmpty(account_keys, idx) ==
    IF idx < Len(account_keys) THEN Key(account_keys, idx) ELSE ""

\* the conditions under which the parser's loop skips an instruction
SkippedByParser(account_keys, ix) ==
    \/ ix.program_id_index >= Len(account_keys)
    \/ Key(account_keys, ix.program_id_index) \notin
           {TOKEN_PROGRAM_ADDRESS, TOKEN_2022_PROGRAM_ADDRESS}
    \/ ix.data = <<>>
    \/ ix.data[1] # TRANSFER_CHECKED
    \/ Len(ix.accounts) < 4
    \/ Len(ix.data) < 10

\* the TransferDetails the parser builds from an instruction it accepts
TransferDetails(account_keys, ix) ==
    [source |-> KeyOrEmpty(account_keys, ix.accounts[1]),
     mint |-> KeyOrEmpty(account_keys, ix.accounts[2]),
     destination |-> KeyOrEmpty(account_keys, ix.accounts[3]),
     authority |-> KeyOrEmpty(account_keys, ix.accounts[4]),
     amount |-> FromBytesLittle(SubSeq(ix.data, 2, 9)),
     decimals |-> ix.data[10]]

NoTransfer == [found |-> FALSE]

RECURSIVE ParseTransferFrom(_, _, _)
ParseTransferFrom(account_keys, instructions, i) ==
    IF i > Len(instructions) THEN NoTransfer
    ELSE IF SkippedByParser(account_keys, instructions[i])
         THEN ParseTransferFrom(account_keys, instructions, i + 1)
         ELSE [found |-> TRUE,
               details |-> TransferDetails(account_keys, instructions[i])]

\* [found |-> FALSE] is the None the function returns
parse_transfer_checked_instruction(tx_base64) ==
    IF ~SOLANA_AVAILABLE \/ ~Decodes(tx_base64) THEN NoTransfer
    ELSE ParseTransferFrom(tx_base64.account_keys, tx_base64.instructions, 1)

\* str(message.account_keys[0]), None when the transaction cannot be read
get_transaction_fee_payer(tx_base64) ==
    IF SOLANA_AVAILABLE /\ Decodes(tx_base64) /\ Len(tx_base64.account_keys) > 0
    THEN Key(tx_base64.account_keys, 0)
    ELSE None

(***************************************************************************)
(* The facilitator scheme: results.                                        *)
(***************************************************************************)
VerifyResult(isValid, invalidReason, payer) ==
    [isValid |-> isValid, invalidReason |-> invalidReason, payer |-> payer]

SettleFailure(network, errorReason, payer) ==
    [success |-> FALSE, network |-> network, transaction |-> "",
     errorReason |-> errorReason, payer |-> payer]

SettleSuccess(network, transaction, payer) ==
    [success |-> TRUE, transaction |-> transaction, network |-> network,
     payer |-> payer]

\* how a call ends: a returned value or a propagated exception
NoResult == [kind |-> "none"]
Returned(value) == [kind |-> "return", value |-> value]
Raised(exc) == [kind |-> "raise", exc |-> exc]

\* payload.get("payload", {}): a dict, or the None a JSON null decodes to
Dict(d) == [tag |-> "dict", dict |-> d]
NoneValue == [tag |-> "None"]
svm_payload_of(payload) == Get(payload, "payload", Dict(EmptyDict))
\* svm_payload.get("transaction"), for a dict
tx_base64_of(svm_payload) == Get(svm_payload.dict, "transaction", NoneValue)
\* `not tx_base64`
NotTx(tx_base64) == tx_base64.tag \in {"None", "empty"}

(***************************************************************************)
(* verify(), lines 1330-1419: everything before the first await.  The      *)
(* outcome is a returned result, a raised exception, or "await": go on to  *)
(* sign and simulate with the payer found.                                 *)
(***************************************************************************)
Invalid(invalidReason, payer) ==
    [kind |-> "return", value |-> VerifyResult(FALSE, invalidReason, payer)]

\* lines 1404-1419: mint and amount, once a transfer was parsed
VerifyTransfer(transfer, requirements, payer) ==
    IF transfer.mint # Get(requirements, "asset", None)
    THEN Invalid("invalid_exact_svm_payload_mint_mismatch", payer)
    ELSE LET required_amount ==
                 PyInt(Get(requirements, "maxAmountRequired", <<"0">>))
         IN  IF ~required_amount.ok THEN Raised("ValueError")
             ELSE IF transfer.amount < required_amount.value
                  THEN Invalid("invalid_exact_svm_payload_amount_insufficient",
                               payer)
                  ELSE [kind |-> "await", payer |-> payer]

\* lines 1378-1402: payer, transfer instruction, self-dealing
VerifyTransaction(tx_base64, requirements, signer_addresses) ==
    LET payer == get_token_payer_from_transaction(tx_base64)
        transfer == parse_transfer_checked_instruction(tx_base64)
    IN  IF Falsy(payer)
        THEN Invalid("invalid_exact_svm_payload_no_transfer_instruction", "")
        ELSE IF ~transfer.found
        THEN Invalid("invalid_exact_svm_payload_no_transfer_instruction", payer)
        ELSE IF transfer.details.authority \in signer_addresses
        THEN Invalid("invalid_exact_svm_payload_transaction_fee_payer_transferring_funds",
                     payer)
        ELSE VerifyTransfer(transfer.details, requirements, payer)

\* lines 1359-1376: the fee payer named by the requirements
VerifyFeePayer(tx_base64, requirements, signer_addresses) ==
    LET extra == Get(requirements, "extra", Dict(EmptyDict))
    IN  IF extra.tag = "None" THEN Raised("AttributeError")
        ELSE LET fee_payer == Get(extra.dict, "feePayer", None)
             IN  IF Falsy(fee_payer)
                 THEN Invalid("invalid_exact_svm_payload_missing_fee_payer", "")
                 ELSE IF fee_payer \notin signer_addresses
                 THEN Invalid("fee_payer_not_managed_by_facilitator", "")
                 ELSE VerifyTransaction(tx_base64, requirements,
                                        signer_addresses)

\* verify() looking at the fee payer before the scheme and the network
VerifyChecksFeePayerFirst(payload, requirements, signer_addresses) ==
    LET svm_payload == svm_payload_of(payload)
        extra == Get(requirements, "extra", Dict(EmptyDict))
    IN  IF svm_payload.tag = "None" THEN Raised("AttributeError")
        ELSE LET tx_base64 == tx_base64_of(svm_payload)
             IN  IF NotTx(tx_base64)
                 THEN Invalid("invalid_payload_structure", "")
                 ELSE IF extra.tag = "dict"
                         /\ Falsy(Get(extra.dict, "feePayer", None))
                 THEN Invalid("invalid_exact_svm_payload_missing_fee_payer", "")
                 ELSE IF \/ Get(payload, "scheme", None) # SCHEME_EXACT
                         \/ Get(requirements, "scheme", None) # SCHEME_EXACT
                 THEN Invalid("unsupported_scheme", "")
                 ELSE IF normalize_network(Get(payload, "network", "")) #
                         normalize_network(Get(requirements, "network", ""))
                 THEN Invalid("network_mismatch", "")
                 ELSE VerifyFeePayer(tx_base64, requirements, signer_addresses)

\* lines 1330-1357: structure, scheme, network
VerifyChecks(payload, requirements, signer_addresses) ==
    LET svm_payload == svm_payload_of(payload)
    IN  IF svm_payload.tag = "None" THEN Raised("AttributeError")
        ELSE LET tx_base64 == tx_base64_of(svm_payload)
             IN  IF NotTx(tx_base64)
                 THEN Invalid("invalid_payload_structure", "")
                 ELSE IF \/ Get(payload, "scheme", None) # SCHEME_EXACT
                         \/ Get(requirements, "scheme", None) # SCHEME_EXACT
                 THEN Invalid("unsupported_scheme", "")
                 ELSE IF normalize_network(Get(payload, "network", "")) #
                         normalize_network(Get(requirements, "network", ""))
                 THEN Invalid("network_mismatch", "")
                 ELSE VerifyFeePayer(tx_base64, requirements, signer_addresses)

(***************************************************************************)
(* The calls the model makes: payloads and requirements.                   *)
(* Accounts of a submitted transaction, 0-based as the instructions index  *)
(* them: 0 the transaction's fee payer, 1 the client, 2 the client's token *)
(* account, 3 the USDC mint, 4 the merchant's token account, 5 the token   *)
(* program, 6 the compute-budget program, 7 another mint, 8 the            *)
(* facilitator's own token account, 9 the token-2022 program.              *)
(***************************************************************************)
USDC == "EPjFWdd5AufqSSqeM2qN1xzybapC8G4wEGGkZwyTDt1v"
\* the addresses the facilitator signer manages, and one it does not
ManagedAddresses == <<"FacilitatorA", "FacilitatorB">>
FeePayers == {"FacilitatorA", "Mallory"}

AccountKeys(fee_payer) ==
    <<fee_payer, "Client", "ClientATA", USDC, "MerchantATA",
      TOKEN_PROGRAM_ADDRESS, COMPUTE_BUDGET_PROGRAM_ADDRESS, "OtherMint",
      "FacilitatorATA", TOKEN_2022_PROGRAM_ADDRESS>>
OutOfRange == Len(AccountKeys("Client"))

Ix(program_id_index, accounts, data) ==
    [program_id_index |-> program_id_index, accounts |-> accounts,
     data |-> data]
TransferCheckedData(amount) ==
    <<TRANSFER_CHECKED>> \o ToBytesLittle(amount, 8) \o <<6>>

Instructions ==
    \* the client's TransferChecked of USDC to the merchant
    {Ix(5, <<2, 3, 4, 1>>, TransferCheckedData(a)) : a \in 1..MaxAmount}
    \cup
    {\* TransferChecked out of the facilitator's account, signed by the fee payer
     Ix(5, <<8, 3, 4, 0>>, TransferCheckedData(1)),
     \* TransferChecked of another mint, by the token-2022 program
     Ix(9, <<2, 7, 4, 1>>, TransferCheckedData(MaxAmount)),
     \* SetComputeUnitLimit of the compute-budget program
     Ix(6, <<>>, <<2, 100, 25, 0, 0>>),
     \* a plain Transfer (discriminator 3): source, destination, authority
     Ix(5, <<2, 4, 1>>, <<3>> \o ToBytesLittle(MaxAmount, 8)),
     \* the client's TransferChecked of USDC into an account that is not the
     \* merchant's
     Ix(5, <<2, 3, 8, 1>>, TransferCheckedData(MaxAmount)),
     \* TransferChecked whose data is cut short
     Ix(5, <<2, 3, 4, 1>>, <<TRANSFER_CHECKED, 1>>),
     \* TransferChecked whose authority index is past the account keys
     Ix(5, <<2, 3, 4, OutOfRange>>, TransferCheckedData(MaxAmount)),
     \* an instruction whose program index is past the account keys
     Ix(OutOfRange, <<>>, <<>>)}

RECURSIVE SeqsUpTo(_, _)
\* the sequences over S of length at most n
SeqsUpTo(S, n) ==
    IF n = 0 THEN {<<>>}
    ELSE LET shorter == SeqsUpTo(S, n - 1)
         IN  shorter \cup {Append(q, x) : q \in shorter, x \in S}

Transactions ==
    {[tag |-> "tx", account_keys |-> AccountKeys(f), instructions |-> ixs] :
        f \in FeePayers, ixs \in SeqsUpTo(Instructions, MaxInstructions)}
    \cup {[tag |-> "garbage"], [tag |-> "empty"]}

\* payload["payload"]: missing, null, without a transaction, with one
InnerPayloads ==
    {NoneValue, Dict(EmptyDict)}
    \cup {Dict([transaction |-> t]) : t \in Transactions}

Payloads ==
    {[scheme |-> s, network |-> n] :
        s \in {SCHEME_EXACT, "upto"}, n \in {SOLANA_MAINNET_V1, SOLANA_DEVNET}}
    \cup
    {[scheme |-> s, network |-> n, payload |-> p] :
        s \in {SCHEME_EXACT, "upto"}, n \in {SOLANA_MAINNET_V1, SOLANA_DEVNET},
        p \in InnerPayloads}

\* requirements["extra"]: null (the default of V1 requirements), {} or a
\* dict naming a fee payer
Extras ==
    {NoneValue, Dict(EmptyDict)} \cup {Dict([feePayer |-> f]) : f \in FeePayers}

\* V1 requirements carry maxAmountRequired, V2 requirements carry amount
Requirements ==
    {[scheme |-> s, network |-> SOLANA_MAINNET, asset |-> USDC, extra |-> e,
      payTo |-> "Merchant", maxAmountRequired |-> m] :
        s \in {SCHEME_EXACT, "upto"}, e \in Extras,
        m \in {PyStr(a) : a \in 1..MaxAmount} \cup {<<"1", ".", "5">>}}
    \cup
    {[scheme |-> s, network |-> SOLANA_MAINNET, asset |-> USDC, extra |-> e,
      payTo |-> "Merchant", amount |-> PyStr(MaxAmount)] :
        s \in {SCHEME_EXACT, "upto"}, e \in Extras}

\* str(e) of the exceptions the signer's RPC calls raise
Errors == {"BlockhashNotFound", "insufficient funds"}

(***************************************************************************)
(* State.                                                                  *)
(***************************************************************************)
VARIABLES
    pc,             \* where the call in flight stands
    op,             \* the method called: "verify" or "settle"
    given,          \* its arguments, as the caller passed them
    payload,        \* the payload and requirements objects, as they are now
    requirements,
    signer,         \* the scheme's _signer: the addresses it manages
    payer,          \* locals of verify and settle
    signed_tx,
    signature,
    verify_result,  \* settle's verify_result
    result,         \* how the call ended
    calls,          \* the signer methods awaited by the call, in order,
                    \* each with its first argument
    outcomes        \* what each of them did: a returned value or an error

vars == <<pc, op, given, payload, requirements, signer, payer, signed_tx, signature,
          verify_result, result, calls, outcomes>>

(***************************************************************************)
(* State of the scheme registry, SchemeRegistry of schemes/registry.py,    *)
(* and of the threads that call it.                                        *)
(***************************************************************************)
VARIABLES
    schemes,    \* _schemes: version -> network or pattern -> name -> scheme
    patterns,   \* _patterns: version -> the wildcard patterns, as a list
    lock,       \* _lock, a threading.RLock: the owning thread and the depth
    history,    \* the register() calls that stored their scheme, in order
    tpc,        \* per thread: where its call stands
    tcall,      \* per thread: the method it called and the arguments
    tret        \* per thread: the local `result`, then what the call returned

registry_vars == <<schemes, patterns, lock, history, tpc, tcall, tret>>

(***************************************************************************)
(* State of the client schemes (schemes/*/exact/client.py and              *)
(* ExactSvmClientScheme of svm.py): the calls to create_payment_payload,   *)
(* one per task, the clock and the random source they read.                *)
(***************************************************************************)
VARIABLES
    cpc,        \* per task: "idle", "awaiting" an awaitable, or "returned"
    ccall,      \* per task: the scheme called and the arguments
    clocal,     \* per task: the locals of the call
    csigned,    \* per task: the calls made on the signer (and on the
                \* resolver or builder the scheme was given), in order
    cret,       \* per task: the payload returned, or the exception raised
    clock,      \* time.time(), in microseconds
    draws       \* how many values secrets.token_bytes has handed out

client_vars == <<cpc, ccall, clocal, csigned, cret, clock, draws>>

(***************************************************************************)
(* The module-level registries of schemes/registry.py, lines 442-477: the  *)
(* three globals, the registry objects made so far and, for each global,   *)
(* the objects its getter has handed out since the last reset.  The        *)
(* threads that call the getters are those of tpc, tcall and tret.         *)
(***************************************************************************)
VARIABLES
    global_registries,  \* _client_registry, _server_registry,
                        \* _facilitator_registry: None or a registry object
    created,            \* how many registry objects have been constructed
    handed              \* per global: the objects returned since the reset

global_vars == <<global_registries, created, handed>>

VARIABLES
    header_call,        \* the header function called and its argument
    header_encoded,       \* the header string an encoder produced
    header_result       \* what the decoder returned or raised

header_vars == <<header_call, header_encoded, header_result>>

VARIABLES
    mpc,                \* per request: where _dispatch is
    mrequest,           \* per request: its path and payment header
    mcalls,             \* per request: the calls awaited and their outcomes
    mresponse           \* per request: what _dispatch returned or raised

middleware_vars == <<mpc, mrequest, mcalls, mresponse>>

VARIABLES
    wait_pc,            \* where wait_for_delivery is
    wait_call,          \* its arguments: the guid and the options
    elapsed,            \* the local `elapsed`, a float
    last_status,        \* the local `last_status`
    polls,              \* how many times get_message was called
    notified,           \* the status on_status_change was last called with
    wait_result         \* what wait_for_delivery returned or raised

wait_vars == <<wait_pc, wait_call, elapsed, last_status, polls, notified, wait_result>>

\* the state of the components added to the three above
more_vars == <<global_vars, header_vars, middleware_vars, wait_vars>>

all_vars == <<vars, registry_vars, client_vars, more_vars>>

T402_VERSION_V1 == 1
T402_VERSION_V2 == 2
\* SchemeRegistry(): _default_version
default_version == T402_VERSION_V2
NoCall == [op |-> None]
Unlocked == [owner |-> None, count |-> 0]

\* no task has called a client scheme yet
ClientInit(T) ==
    /\ cpc = [t \in T |-> "idle"]
    /\ ccall = [t \in T |-> NoCall]
    /\ clocal = [t \in T |-> EmptyDict]
    /\ csigned = [t \in T |-> <<>>]
    /\ cret = [t \in T |-> NoResult]
    /\ clock = 0
    /\ draws = 0

GlobalKinds == {"client", "server", "facilitator"}
\* lines 443-445: the three globals are None
GlobalInit ==
    /\ global_registries = [k \in GlobalKinds |-> NoneValue]
    /\ created = 0
    /\ handed = [k \in GlobalKinds |-> {}]

\* no header function has been called
HeaderInit ==
    /\ header_call = NoneValue
    /\ header_encoded = NoneValue
    /\ header_result = NoneValue

\* the requests in flight
HttpRequests == {"r1", "r2"}
\* no request has arrived
MiddlewareInit ==
    /\ mpc = [r \in HttpRequests |-> "idle"]
    /\ mrequest = [r \in HttpRequests |-> NoneValue]
    /\ mcalls = [r \in HttpRequests |-> <<>>]
    /\ mresponse = [r \in HttpRequests |-> NoneValue]

\* the significand of a Python float has 53 bits
MantissaBits == 53
\* 0.0
DoubleZero == [e |-> 0, m |-> [k \in 1..MantissaBits |-> 0]]
\* wait_for_delivery has not been called
WaitInit ==
    /\ wait_pc = "idle"
    /\ wait_call = NoneValue
    /\ elapsed = DoubleZero
    /\ last_status = NoneValue
    /\ polls = 0
    /\ notified = NoneValue
    /\ wait_result = NoneValue

MoreInit == GlobalInit /\ HeaderInit /\ MiddlewareInit /\ WaitInit

\* SchemeRegistry.__init__, and the threads T that will call the registry
RegistryInit(T) ==
    /\ schemes = [v \in {T402_VERSION_V1, T402_VERSION_V2} |-> EmptyDict]
    /\ patterns = [v \in {T402_VERSION_V1, T402_VERSION_V2} |-> <<>>]
    /\ lock = Unlocked
    /\ history = <<>>
    /\ tpc = [t \in T |-> "idle"]
    /\ tcall = [t \in T |-> NoCall]
    /\ tret = [t \in T |-> NoResult]

signer_addresses == {signer.addresses[i] : i \in 1..Len(signer.addresses)}

Init ==
    /\ pc = "idle"
    /\ op = None
    /\ given = NoneValue
    /\ payload = EmptyDict
    /\ requirements = EmptyDict
    /\ signer = [addresses |-> ManagedAddresses]
    /\ payer = None
    /\ signed_tx = NoneValue
    /\ signature = None
    /\ verify_result = NoneValue
    /\ result = NoResult
    /\ calls = <<>>
    /\ outcomes = <<>>

(***************************************************************************)
(* The FacilitatorSvmSigner protocol, as its docstrings state it: every    *)
(* method may raise; simulate_transaction returns True or raises;          *)
(* confirm_transaction returns True if confirmed, and is typed bool.       *)
(***************************************************************************)
Ok(value) == [kind |-> "return", value |-> value]
Fails(e) == [kind |-> "raise", exc |-> e]
Failures == {Fails(e) : e \in Errors}
Signature == "5VERv8NMvzbJMEkV8xnrLkEaWRtSz9CosKDYjCJjBRnb"

SignOutcomes == {Ok("signed")} \cup Failures
SimulateOutcomes == {Ok("True")} \cup Failures
SendOutcomes == {Ok(Signature)} \cup Failures
ConfirmOutcomes == {Ok("True"), Ok("False")} \cup Failures

\* the signer is awaited: the call, its first argument and what it did are
\* logged
Awaited(method, argument, outcome) ==
    /\ calls' = Append(calls, [method |-> method, argument |-> argument])
    /\ outcomes' = Append(outcomes, outcome)

\* sign_transaction(tx_base64, fee_payer, network)
Signed(tx_base64, fee_payer, network) ==
    [tag |-> "signed", transaction |-> tx_base64, fee_payer |-> fee_payer,
     network |-> network]

FeePayerOf(r) == Get(Get(r, "extra", Dict(EmptyDict)).dict, "feePayer", None)
TransactionOf(p) == tx_base64_of(svm_payload_of(p))

\* settle() going on to sign and broadcast whatever verify() returned
VerifyReturnsUnchecked(o, p, v) ==
    IF o = "verify"
    THEN /\ result' = Returned(v)
         /\ pc' = "returned"
         /\ UNCHANGED verify_result
    ELSE /\ verify_result' = v
         /\ pc' = "settle_sign"
         /\ UNCHANGED result

(***************************************************************************)
(* verify() returns v to its caller: to the outside when verify was        *)
(* called, into settle (lines 1471-1479) when settle was.                  *)
(***************************************************************************)
VerifyReturns(o, p, v) ==
    IF o = "verify"
    THEN /\ result' = Returned(v)
         /\ pc' = "returned"
         /\ UNCHANGED verify_result
    ELSE /\ verify_result' = v
         /\ IF ~v.isValid
            THEN /\ result' = Returned(SettleFailure(Get(p, "network", ""),
                                                    v.invalidReason, v.payer))
                 /\ pc' = "returned"
            ELSE /\ pc' = "settle_sign"
                 /\ UNCHANGED result

\* verify() from its first line to its first await
BeginVerify(o, p, r) ==
    LET c == VerifyChecks(p, r, signer_addresses)
    IN  CASE c.kind = "await" ->
               /\ pc' = "verify_sign"
               /\ payer' = c.payer
               /\ UNCHANGED <<result, verify_result>>
          [] c.kind = "return" ->
               /\ VerifyReturns(o, p, c.value)
               /\ payer' = c.value.payer
          [] c.kind = "raise" ->
               /\ pc' = "returned"
               /\ result' = Raised(c.exc)
               /\ UNCHANGED <<payer, verify_result>>

\* verify() reading the payload with payload.setdefault("payload", {})
CallVerifySetDefault(p, r) ==
    /\ pc = "idle"
    /\ op' = "verify"
    /\ given' = [payload |-> p, requirements |-> r]
    /\ payload' = IF "payload" \in DOMAIN p THEN p
                  ELSE [k \in DOMAIN p \cup {"payload"} |->
                           IF k = "payload" THEN Dict(EmptyDict) ELSE p[k]]
    /\ requirements' = r
    /\ BeginVerify("verify", p, r)
    /\ UNCHANGED <<signer, signed_tx, signature, calls, outcomes>>

CallVerify(p, r) ==
    /\ pc = "idle"
    /\ op' = "verify"
    /\ given' = [payload |-> p, requirements |-> r]
    /\ payload' = p
    /\ requirements' = r
    /\ BeginVerify("verify", p, r)
    /\ UNCHANGED <<signer, signed_tx, signature, calls, outcomes>>

\* lines 1421-1427: await self._signer.sign_transaction(...)
VerifySign ==
    /\ pc = "verify_sign"
    /\ \E out \in SignOutcomes :
         /\ Awaited("sign_transaction", TransactionOf(payload), out)
         /\ IF out.kind = "return"
            THEN /\ signed_tx' = Signed(TransactionOf(payload),
                                        FeePayerOf(requirements),
                                        Get(requirements, "network", ""))
                 /\ pc' = "verify_simulate"
                 /\ UNCHANGED <<result, verify_result>>
            ELSE /\ VerifyReturns(op, payload,
                        VerifyResult(FALSE,
                            "transaction_simulation_failed: " \o out.exc, payer))
                 /\ UNCHANGED signed_tx
    /\ UNCHANGED <<op, given, payload, requirements, signer, payer, signature>>

\* verify() without the try around the simulation: its failure is dropped
VerifySimulateUnchecked ==
    /\ pc = "verify_simulate"
    /\ \E out \in SimulateOutcomes :
         /\ Awaited("simulate_transaction", signed_tx, out)
         /\ VerifyReturns(op, payload, VerifyResult(TRUE, None, payer))
    /\ UNCHANGED <<op, given, payload, requirements, signer, payer, signed_tx,
                   signature>>

\* lines 1428-1440: await self._signer.simulate_transaction(...)
VerifySimulate ==
    /\ pc = "verify_simulate"
    /\ \E out \in SimulateOutcomes :
         /\ Awaited("simulate_transaction", signed_tx, out)
         /\ IF out.kind = "return"
            THEN VerifyReturns(op, payload, VerifyResult(TRUE, None, payer))
            ELSE VerifyReturns(op, payload,
                     VerifyResult(FALSE,
                         "transaction_simulation_failed: " \o out.exc, payer))
    /\ UNCHANGED <<op, given, payload, requirements, signer, payer, signed_tx,
                   signature>>

(***************************************************************************)
(* settle(), lines 1457-1511.                                              *)
(***************************************************************************)
CallSettle(p, r) ==
    /\ pc = "idle"
    /\ op' = "settle"
    /\ given' = [payload |-> p, requirements |-> r]
    /\ payload' = p
    /\ requirements' = r
    /\ LET network == Get(p, "network", "")
           svm_payload == svm_payload_of(p)
       IN  IF svm_payload.tag = "None"
           THEN /\ pc' = "returned"
                /\ result' = Raised("AttributeError")
                /\ UNCHANGED <<payer, verify_result>>
           ELSE IF NotTx(tx_base64_of(svm_payload))
           THEN /\ pc' = "returned"
                /\ result' = Returned(SettleFailure(network,
                                 "invalid_payload_structure", ""))
                /\ UNCHANGED <<payer, verify_result>>
           ELSE BeginVerify("settle", p, r)
    /\ UNCHANGED <<signer, signed_tx, signature, calls, outcomes>>

\* settle() without its except branch: the exception leaves settle()
SettlePropagates(e) ==
    /\ result' = Raised(e)
    /\ pc' = "returned"

\* the except branch, lines 1504-1511
SettleFails(e) ==
    /\ result' = Returned(SettleFailure(Get(payload, "network", ""),
                              "transaction_failed: " \o e,
                              Get(verify_result, "payer", "")))
    /\ pc' = "returned"

\* lines 1482-1490
SettleSign ==
    /\ pc = "settle_sign"
    /\ \E out \in SignOutcomes :
         /\ Awaited("sign_transaction", TransactionOf(payload), out)
         /\ IF out.kind = "return"
            THEN /\ signed_tx' =
                      Signed(TransactionOf(payload), FeePayerOf(requirements),
                             Get(requirements, "network",
                                 Get(payload, "network", "")))
                 /\ pc' = "settle_send"
                 /\ UNCHANGED result
            ELSE /\ SettleFails(out.exc)
                 /\ UNCHANGED signed_tx
    /\ UNCHANGED <<op, given, payload, requirements, signer, payer, signature,
                   verify_result>>

\* settle() sending again when the broadcast raised
SettleSendRetried ==
    /\ pc = "settle_send"
    /\ \E out \in SendOutcomes :
         /\ Awaited("send_transaction", signed_tx, out)
         /\ IF out.kind = "return"
            THEN /\ signature' = out.value
                 /\ pc' = "settle_confirm"
            ELSE UNCHANGED <<signature, pc>>
    /\ UNCHANGED <<op, given, payload, requirements, signer, payer, signed_tx,
                   verify_result, result>>

\* line 1493
SettleSend ==
    /\ pc = "settle_send"
    /\ \E out \in SendOutcomes :
         /\ Awaited("send_transaction", signed_tx, out)
         /\ IF out.kind = "return"
            THEN /\ signature' = out.value
                 /\ pc' = "settle_confirm"
                 /\ UNCHANGED result
            ELSE /\ SettleFails(out.exc)
                 /\ UNCHANGED signature
    /\ UNCHANGED <<op, given, payload, requirements, signer, payer, signed_tx,
                   verify_result>>

\* lines 1496-1503: the value confirm_transaction returns is dropped
SettleConfirm ==
    /\ pc = "settle_confirm"
    /\ \E out \in ConfirmOutcomes :
         /\ Awaited("confirm_transaction", signature, out)
         /\ IF out.kind = "return"
            THEN /\ result' = Returned(SettleSuccess(
                                  Get(payload, "network", ""), signature,
                                  Get(verify_result, "payer", "")))
                 /\ pc' = "returned"
            ELSE SettleFails(out.exc)
    /\ UNCHANGED <<op, given, payload, requirements, signer, payer, signed_tx,
                   signature, verify_result>>

\* the caller has the result; the scheme is ready for the next call
Finish ==
    /\ pc = "returned"
    /\ pc' = "idle"
    /\ op' = None
    /\ given' = NoneValue
    /\ payload' = EmptyDict
    /\ requirements' = EmptyDict
    /\ payer' = None
    /\ signed_tx' = NoneValue
    /\ signature' = None
    /\ verify_result' = NoneValue
    /\ result' = NoResult
    /\ calls' = <<>>
    /\ outcomes' = <<>>
    /\ UNCHANGED signer

\* a caller invokes verify(payload, requirements)
Verify ==
    /\ pc = "idle"
    /\ \E p \in Payloads, r \in Requirements : CallVerify(p, r)

\* a caller invokes settle(payload, requirements)
Settle ==
    /\ pc = "idle"
    /\ \E p \in Payloads, r \in Requirements : CallSettle(p, r)

\* the facilitator's calls leave the registry and the client schemes alone
Next ==
    \/ Verify /\ UNCHANGED <<registry_vars, client_vars, more_vars>>
    \/ Settle /\ UNCHANGED <<registry_vars, client_vars, more_vars>>
    \/ VerifySign /\ UNCHANGED <<registry_vars, client_vars, more_vars>>
    \/ VerifySimulate /\ UNCHANGED <<registry_vars, client_vars, more_vars>>
    \/ SettleSign /\ UNCHANGED <<registry_vars, client_vars, more_vars>>
    \/ SettleSend /\ UNCHANGED <<registry_vars, client_vars, more_vars>>
    \/ SettleConfirm /\ UNCHANGED <<registry_vars, client_vars, more_vars>>
    \/ Finish /\ UNCHANGED <<registry_vars, client_vars, more_vars>>

\* the initial state: nothing registered, no client call made
SpecInit == Init /\ RegistryInit({}) /\ ClientInit({}) /\ MoreInit
Spec == SpecInit /\ [][Next]_all_vars

(***************************************************************************)
(* Properties.                                                             *)
(***************************************************************************)
Called(method) == \E i \in 1..Len(calls) : calls[i].method = method
Methods == [i \in 1..Len(calls) |-> calls[i].method]
VerifyDone == verify_result # NoneValue
HasReturned == pc = "returned" /\ result.kind = "return"

\* C1: settle() completes verify() before any broadcast: send_transaction
\* has been awaited only after verify() returned isValid=true; and once
\* verify() has returned isValid=false, or the payload fails a check verify()
\* makes before it awaits the signer, settle() has returned success=false
\* (unless an exception left it) and send_transaction was never awaited.
SettleImpliesVerify ==
    op = "settle" =>
        /\ Called("send_transaction") => VerifyDone /\ verify_result.isValid
        /\ VerifyDone /\ ~verify_result.isValid =>
               /\ HasReturned
               /\ ~result.value.success
               /\ ~Called("send_transaction")
        /\ VerifyChecks(payload, requirements, signer_addresses).kind = "return" =>
               /\ HasReturned
               /\ ~result.value.success
               /\ ~Called("send_transaction")

\* settle() was handed a payload that verify() turned down after simulating it
SettleRefusedInvalid ==
    /\ op = "settle"
    /\ HasReturned
    /\ VerifyDone
    /\ ~verify_result.isValid
    /\ Called("simulate_transaction")
    /\ ~result.value.success

\* what verify() returned, once it has
VerifyReturned == op = "verify" /\ HasReturned
LastOutcome == outcomes[Len(outcomes)]

\* the TransferChecked instruction of a transaction: the first instruction
\* of a token program with discriminator 12, four accounts and ten data bytes
IsTransferChecked(account_keys, ix) ==
    /\ ix.program_id_index < Len(account_keys)
    /\ account_keys[ix.program_id_index + 1] \in
           {TOKEN_PROGRAM_ADDRESS, TOKEN_2022_PROGRAM_ADDRESS}
    /\ Len(ix.data) >= 10
    /\ ix.data[1] = TRANSFER_CHECKED
    /\ Len(ix.accounts) >= 4
TransferCheckedOf(tx) ==
    IF tx.tag # "tx" THEN {}
    ELSE LET at == {i \in 1..Len(tx.instructions) :
                       IsTransferChecked(tx.account_keys, tx.instructions[i])}
         IN  {tx.instructions[i] : i \in {j \in at : \A k \in at : j <= k}}
\* the account at position n (0-based) of the TransferChecked instruction
TransferAccount(tx, n) ==
    {IF ix.accounts[n + 1] < Len(tx.account_keys)
     THEN tx.account_keys[ix.accounts[n + 1] + 1]
     ELSE "" : ix \in TransferCheckedOf(tx)}
TransferAmount(tx) ==
    {FromBytesLittle(SubSeq(ix.data, 2, 9)) : ix \in TransferCheckedOf(tx)}
GivenTransaction == TransactionOf(given.payload)

\* C2: verify() returns isValid=false whenever the TransferChecked amount is
\* strictly less than the integer in the requirements' `amount` field.
AmountFloor ==
    VerifyReturned /\ "amount" \in DOMAIN given.requirements =>
        \A a \in TransferAmount(GivenTransaction) :
            a < PyInt(given.requirements["amount"]).value =>
                ~result.value.isValid

SelfDealingReason ==
    "invalid_exact_svm_payload_transaction_fee_payer_transferring_funds"
\* the TransferChecked instruction verify() parses is authorised by an
\* address of get_addresses()
SelfDealing(tx) == TransferAccount(tx, 3) \cap signer_addresses # {}
\* the authorities of all the TransferChecked instructions of a transaction
TransferAuthorities(tx) ==
    IF tx.tag # "tx" THEN {}
    ELSE {KeyOrEmpty(tx.account_keys, ix.accounts[4]) :
             ix \in {tx.instructions[i] : i \in
                        {j \in 1..Len(tx.instructions) :
                            IsTransferChecked(tx.account_keys,
                                              tx.instructions[j])}}}

\* C3: verify() never returns isValid=true for a payload in which the
\* authority of a TransferChecked instruction is an address of
\* get_addresses(), and it returns the self-dealing reason for no other
\* payload.
SelfDealingNeverVerified ==
    VerifyReturned =>
        /\ TransferAuthorities(GivenTransaction) \cap signer_addresses # {} =>
               ~result.value.isValid
        /\ result.value.invalidReason = SelfDealingReason =>
               TransferAuthorities(GivenTransaction) \cap signer_addresses # {}

\* C4: verify() returns isValid=true only if the fee payer of the submitted
\* transaction (its first account key) is an address the facilitator manages.
TransactionFeePayerManaged ==
    VerifyReturned /\ result.value.isValid =>
        get_transaction_fee_payer(GivenTransaction) \in signer_addresses

\* C5: settle() returns success=true only after confirm_transaction
\* reported the transaction as confirmed (returned True).
SuccessOnlyIfConfirmed ==
    op = "settle" /\ HasReturned /\ result.value.success =>
        /\ calls[Len(calls)].method = "confirm_transaction"
        /\ LastOutcome = Ok("True")

\* C6: when a signer method raises during settle(), settle() returns
\* success=false with an errorReason that carries the exception's text, and
\* nothing propagates.
SettleCatches ==
    op = "settle" /\ outcomes # <<>> /\ LastOutcome.kind = "raise" =>
        /\ HasReturned
        /\ ~result.value.success
        /\ result.value.errorReason \in
               {"transaction_failed: " \o LastOutcome.exc,
                "transaction_simulation_failed: " \o LastOutcome.exc}
        /\ calls[Len(calls)].method \in
               {"send_transaction", "confirm_transaction"} =>
               result.value.errorReason = "transaction_failed: " \o LastOutcome.exc

\* confirm_transaction raised after the broadcast and settle() returned
SettleCaughtConfirm ==
    /\ op = "settle"
    /\ HasReturned
    /\ Methods = <<"sign_transaction", "simulate_transaction",
                   "sign_transaction", "send_transaction",
                   "confirm_transaction">>
    /\ LastOutcome.kind = "raise"
    /\ ~result.value.success

\* C7: verify() awaits neither send_transaction nor confirm_transaction and
\* leaves the payload, the requirements and the scheme's signer as they were.
VerifyHasNoSideEffects ==
    op = "verify" =>
        /\ ~Called("send_transaction")
        /\ ~Called("confirm_transaction")
        /\ payload = given.payload
        /\ requirements = given.requirements
        /\ signer = [addresses |-> ManagedAddresses]

\* verify() went through signing and simulation and returned isValid=true
VerifiedValid ==
    /\ VerifyReturned
    /\ result.value.isValid
    /\ Methods = <<"sign_transaction", "simulate_transaction">>

\* C8: verify() ends by returning a result, never by raising.
VerifyNeverRaises ==
    op = "verify" /\ pc = "returned" => result.kind = "return"

\* The six classes of check of verify(), each as the condition under which
\* the call at hand fails it, and the reason codes of each class.
GivenFeePayer == FeePayerOf(given.requirements)
RequiredAmount == PyInt(Get(given.requirements, "maxAmountRequired", <<"0">>))
Violates(class) ==
    CASE class = 1 -> NotTx(GivenTransaction)
      [] class = 2 ->
            \/ Get(given.payload, "scheme", None) # SCHEME_EXACT
            \/ Get(given.requirements, "scheme", None) # SCHEME_EXACT
            \/ normalize_network(Get(given.payload, "network", "")) #
               normalize_network(Get(given.requirements, "network", ""))
      [] class = 3 ->
            \/ Falsy(GivenFeePayer)
            \/ GivenFeePayer \notin signer_addresses
            \/ Falsy(get_token_payer_from_transaction(GivenTransaction))
            \/ TransferCheckedOf(GivenTransaction) = {}
      [] class = 4 -> SelfDealing(GivenTransaction)
      [] class = 5 ->
            \/ TransferAccount(GivenTransaction, 1) #
                   {Get(given.requirements, "asset", None)}
            \/ /\ RequiredAmount.ok
               /\ \E a \in TransferAmount(GivenTransaction) :
                      a < RequiredAmount.value
      [] class = 6 -> outcomes # <<>> /\ LastOutcome.kind = "raise"
      [] OTHER -> TRUE
ReasonsOfClass ==
    <<{"invalid_payload_structure"},
      {"unsupported_scheme", "network_mismatch"},
      {"invalid_exact_svm_payload_missing_fee_payer",
       "fee_payer_not_managed_by_facilitator",
       "invalid_exact_svm_payload_no_transfer_instruction"},
      {SelfDealingReason},
      {"invalid_exact_svm_payload_mint_mismatch",
       "invalid_exact_svm_payload_amount_insufficient"},
      {"transaction_simulation_failed: " \o e : e \in Errors},
      {None}>>
EarliestViolated == CHOOSE k \in 1..7 : Violates(k) /\ \A j \in 1..(k - 1) : ~Violates(j)

\* C9: the invalidReason verify() returns is a reason code of the earliest
\* class of check the call fails, in the order structure, scheme/network,
\* signature/authority, self-dealing, asset/amount, simulation (and None,
\* with isValid=true, when it fails none); no reason code belongs to two
\* classes.
FailsOnFirstMismatch ==
    /\ \A i, j \in 1..7 : i # j => ReasonsOfClass[i] \cap ReasonsOfClass[j] = {}
    /\ VerifyReturned =>
           /\ result.value.invalidReason \in ReasonsOfClass[EarliestViolated]
           /\ result.value.isValid <=> EarliestViolated = 7

\* verify() named the scheme for a payload that is self-dealing and too small
SeveralChecksViolated ==
    /\ VerifyReturned
    /\ result.value.invalidReason = "unsupported_scheme"
    /\ Violates(4)
    /\ Violates(5)

\* C10: verify() returns isValid=true only after simulate_transaction was
\* awaited on the transaction sign_transaction returned and did not fail; when
\* the simulation fails, verify() returns isValid=false and its invalidReason
\* carries the error of the simulation.
SimulationDecides ==
    VerifyReturned =>
        /\ result.value.isValid =>
               /\ Methods = <<"sign_transaction", "simulate_transaction">>
               /\ outcomes = <<Ok("signed"), Ok("True")>>
               /\ calls[2].argument = Signed(GivenTransaction, GivenFeePayer,
                      Get(given.requirements, "network", ""))
        /\ Called("simulate_transaction") /\ LastOutcome.kind = "raise" =>
               /\ ~result.value.isValid
               /\ result.value.invalidReason =
                      "transaction_simulation_failed: " \o LastOutcome.exc

\* the simulation failed and verify() returned its error
SimulationFailureSurfaced ==
    /\ VerifyReturned
    /\ Methods = <<"sign_transaction", "simulate_transaction">>
    /\ LastOutcome = Fails("insufficient funds")
    /\ result.value.invalidReason =
           "transaction_simulation_failed: insufficient funds"

(***************************************************************************)
(* The scheme registry, schemes/registry.py.  A network identifier or a    *)
(* pattern is a Python str, modelled as the sequence of its characters.    *)
(***************************************************************************)
\* largest number of register() calls that store a scheme
MaxRegistrations == 2
\* longest pattern and network the matching is tried on, character by
\* character
MaxLen == 3

Star == "*"
Dot == "."
Newline == "\n"
Contains(s, c) == \E i \in 1..Len(s) : s[i] = c
StartsWith(s, prefix) ==
    /\ Len(prefix) <= Len(s)
    /\ SubSeq(s, 1, Len(prefix)) = prefix

RECURSIVE re_match(_, _)
\* re.match("^" + pattern.replace("*", ".*") + "$", network): every "*" of
\* the pattern reads as ".*", a "." as any character but a newline, any
\* other character of the model as itself; "$" holds at the end and before
\* a last newline
re_match(pattern, network) ==
    IF pattern = <<>> THEN network \in {<<>>, <<Newline>>}
    ELSE IF Head(pattern) = Star
    THEN \/ re_match(Tail(pattern), network)
         \/ /\ network # <<>>
            /\ Head(network) # Newline
            /\ re_match(pattern, Tail(network))
    ELSE /\ network # <<>>
         /\ IF Head(pattern) = Dot THEN Head(network) # Newline
            ELSE Head(network) = Head(pattern)
         /\ re_match(Tail(pattern), Tail(network))

\* a matcher for which any pattern holding a "*" matches everything
MatchesAnyWildcard(pattern, network) ==
    IF Contains(pattern, Star) THEN TRUE ELSE pattern = network

_matches_network_pattern(pattern, network) ==
    IF pattern = <<Star>> THEN TRUE
    ELSE IF Contains(pattern, Star) THEN re_match(pattern, network)
    ELSE pattern = network

\* d[k] = v on a dict
Put(d, k, v) == [x \in DOMAIN d \cup {k} |-> IF x = k THEN v ELSE d[x]]
\* an Optional[int] argument: None, or an int
IntValue(n) == [tag |-> "int", int |-> n]
IsNone(x) == x.tag = "None"
\* version or self._default_version
VersionOr(version) ==
    IF IsNone(version) \/ version.int = 0 THEN default_version ELSE version.int
\* hasattr(scheme, "scheme")
HasScheme(scheme) == "scheme" \in DOMAIN scheme

\* register(), lines 156-163: the scheme is stored under its name
register_store(s, network, scheme, v) ==
    LET s1 == IF v \in DOMAIN s THEN s ELSE Put(s, v, EmptyDict)
        of_network == Get(s1[v], network, EmptyDict)
    IN  Put(s1, v, Put(s1[v], network, Put(of_network, scheme.scheme, scheme)))

\* register(), lines 156-158: a version met for the first time
register_version(s, p, v) == IF v \in DOMAIN s THEN p ELSE Put(p, v, <<>>)

\* a register() that puts a new pattern in front of the list
register_track_front(p, network, v) ==
    IF Contains(network, Star) /\ ~Contains(p[v], network)
    THEN Put(p, v, <<network>> \o p[v])
    ELSE p

\* a register() that tracks the pattern at every call
register_track_again(p, network, v) ==
    IF Contains(network, Star) THEN Put(p, v, Append(p[v], network)) ELSE p

\* register(), lines 165-167: the pattern is tracked, once
register_track(p, network, v) ==
    IF Contains(network, Star) /\ ~Contains(p[v], network)
    THEN Put(p, v, Append(p[v], network))
    ELSE p

\* the indices of the patterns of version v that match the network and hold
\* the scheme name
Matching(s, p, network, scheme_name, v) ==
    {i \in 1..Len(Get(p, v, <<>>)) :
        /\ _matches_network_pattern(p[v][i], network)
        /\ scheme_name \in DOMAIN Get(s[v], p[v][i], EmptyDict)}

Least(S) == CHOOSE i \in S : \A j \in S : i <= j

\* get(), lines 226-233: Returned(...) when the exact entry decides
get_exact(s, network, scheme_name, v) ==
    IF v \notin DOMAIN s THEN Returned(NoneValue)
    ELSE IF /\ network \in DOMAIN s[v]
            /\ scheme_name \in DOMAIN s[v][network]
    THEN Returned(s[v][network][scheme_name])
    ELSE NoResult

\* get(), lines 235-242: the first pattern, in list order, that qualifies
get_patterns(s, p, network, scheme_name, v) ==
    LET found == Matching(s, p, network, scheme_name, v)
    IN  IF found = {} THEN NoneValue
        ELSE s[v][p[v][Least(found)]][scheme_name]

\* get_for_network(), lines 262-267
get_for_network_exact(s, network, v) ==
    IF v \notin DOMAIN s THEN Returned(EmptyDict)
    ELSE [kind |-> "local", value |-> Get(s[v], network, EmptyDict)]

RECURSIVE get_for_network_patterns(_, _, _, _, _, _)
\* get_for_network(), lines 269-277, from pattern i on; found is `result`
get_for_network_patterns(s, p, network, v, found, i) ==
    IF i > Len(Get(p, v, <<>>)) THEN found
    ELSE LET pattern == p[v][i]
             of_pattern == Get(s[v], pattern, EmptyDict)
             merged == [n \in DOMAIN found \cup DOMAIN of_pattern |->
                          IF n \in DOMAIN found THEN found[n]
                          ELSE of_pattern[n]]
         IN  get_for_network_patterns(
                 s, p, network, v,
                 IF _matches_network_pattern(pattern, network) THEN merged
                 ELSE found,
                 i + 1)

\* clear(), lines 338-344, on _schemes
clear_schemes(s, version) ==
    IF ~IsNone(version) THEN Put(s, version.int, EmptyDict)
    ELSE [v \in DOMAIN s |-> EmptyDict]

\* clear(), lines 338-344, on _patterns: the versions are those of _schemes
clear_patterns(s, p, version) ==
    IF ~IsNone(version) THEN Put(p, version.int, <<>>)
    ELSE [v \in DOMAIN p \cup DOMAIN s |->
            IF v \in DOMAIN s THEN <<>> ELSE p[v]]

(***************************************************************************)
(* The calls on the registry.  A thread may be preempted between any two   *)
(* statements, so a call is a chain of steps: taking the lock, the         *)
(* statements under it, and the return, which gives the lock back.         *)
(***************************************************************************)
\* what the methods return
Bool(b) == [tag |-> "bool", bool |-> b]
Self == [tag |-> "self"]

\* threading.RLock.acquire by thread t, when it does not block
CanAcquire(t) == lock.owner \in {None, t}
Acquired(t) == [owner |-> t, count |-> lock.count + 1]
\* threading.RLock.release
Released == IF lock.count = 1 THEN Unlocked ELSE [lock EXCEPT !.count = @ - 1]

\* the step that follows `with self._lock:` in each method
AfterLock ==
    [register_lock |-> "register_store",
     get_lock |-> "get_exact",
     get_for_network_lock |-> "get_for_network_exact",
     clear_lock |-> "clear"]

\* the register() calls that have not stored their scheme yet
Registering ==
    {t \in DOMAIN tpc : tpc[t] \in {"register_lock", "register_store"}}

\* a thread returns from its call
Returns(t, value) ==
    /\ tpc' = [tpc EXCEPT ![t] = "returned"]
    /\ tret' = [tret EXCEPT ![t] = Returned(value)]

\* register(network, scheme, version), lines 149-153
RegisterCall(t, network, scheme, version) ==
    /\ tcall' = [tcall EXCEPT ![t] =
                   [op |-> "register", network |-> network, scheme |-> scheme,
                    version |-> version, v |-> VersionOr(version)]]
    /\ IF ~HasScheme(scheme)
       THEN /\ tpc' = [tpc EXCEPT ![t] = "returned"]
            /\ tret' = [tret EXCEPT ![t] = Raised("ValueError")]
       ELSE /\ Len(history) + Cardinality(Registering) < MaxRegistrations
            /\ tpc' = [tpc EXCEPT ![t] = "register_lock"]
            /\ UNCHANGED tret
    /\ UNCHANGED <<schemes, patterns, lock, history>>

\* `with self._lock:` entered without taking the lock
AcquireLockSkipped(t) ==
    /\ tpc[t] \in DOMAIN AfterLock
    /\ tpc' = [tpc EXCEPT ![t] = AfterLock[tpc[t]]]
    /\ UNCHANGED <<schemes, patterns, lock, history, tcall, tret>>

\* `with self._lock:` of lines 155, 225, 261 and 337
AcquireLock(t) ==
    /\ tpc[t] \in DOMAIN AfterLock
    /\ CanAcquire(t)
    /\ lock' = Acquired(t)
    /\ tpc' = [tpc EXCEPT ![t] = AfterLock[tpc[t]]]
    /\ UNCHANGED <<schemes, patterns, history, tcall, tret>>

\* register(), lines 156-163
RegisterStore(t) ==
    /\ tpc[t] = "register_store"
    /\ LET c == tcall[t]
       IN  /\ schemes' = register_store(schemes, c.network, c.scheme, c.v)
           /\ patterns' = register_version(schemes, patterns, c.v)
           /\ history' = Append(history, [network |-> c.network,
                                          scheme |-> c.scheme,
                                          version |-> c.v])
    /\ tpc' = [tpc EXCEPT ![t] = "register_track"]
    /\ UNCHANGED <<lock, tcall, tret>>

\* register(), lines 165-169
RegisterTrack(t) ==
    /\ tpc[t] = "register_track"
    /\ patterns' = register_track(patterns, tcall[t].network, tcall[t].v)
    /\ lock' = Released
    /\ Returns(t, Self)
    /\ UNCHANGED <<schemes, history, tcall>>

\* get(network, scheme_name, version), line 223; has_scheme() is
\* get(...) is not None, line 295
GetCall(t, method, network, scheme_name, version) ==
    /\ tcall' = [tcall EXCEPT ![t] =
                   [op |-> method, network |-> network,
                    scheme_name |-> scheme_name, version |-> version,
                    v |-> VersionOr(version)]]
    /\ tpc' = [tpc EXCEPT ![t] = "get_lock"]
    /\ UNCHANGED <<schemes, patterns, lock, history, tret>>

\* what get() found leaves get(), or has_scheme()
GetReturns(t, found) ==
    /\ lock' = Released
    /\ Returns(t, IF tcall[t].op = "has_scheme" THEN Bool(found # NoneValue)
                  ELSE found)

\* get() without its exact-match branch
GetExactSkipped(t) ==
    /\ tpc[t] = "get_exact"
    /\ tpc' = [tpc EXCEPT ![t] = "get_patterns"]
    /\ UNCHANGED <<schemes, patterns, lock, history, tcall, tret>>

\* get(), lines 226-233
GetExact(t) ==
    /\ tpc[t] = "get_exact"
    /\ LET c == tcall[t]
           r == get_exact(schemes, c.network, c.scheme_name, c.v)
       IN  IF r.kind = "return" THEN GetReturns(t, r.value)
           ELSE /\ tpc' = [tpc EXCEPT ![t] = "get_patterns"]
                /\ UNCHANGED <<lock, tret>>
    /\ UNCHANGED <<schemes, patterns, history, tcall>>

\* get(), lines 235-242
GetPatterns(t) ==
    /\ tpc[t] = "get_patterns"
    /\ LET c == tcall[t]
       IN  GetReturns(t, get_patterns(schemes, patterns, c.network,
                                      c.scheme_name, c.v))
    /\ UNCHANGED <<schemes, patterns, history, tcall>>

\* get_for_network(network, version), lines 258-259
GetForNetworkCall(t, network, version) ==
    /\ tcall' = [tcall EXCEPT ![t] =
                   [op |-> "get_for_network", network |-> network,
                    version |-> version, v |-> VersionOr(version)]]
    /\ tpc' = [tpc EXCEPT ![t] = "get_for_network_lock"]
    /\ UNCHANGED <<schemes, patterns, lock, history, tret>>

\* get_for_network(), lines 262-267
GetForNetworkExact(t) ==
    /\ tpc[t] = "get_for_network_exact"
    /\ LET r == get_for_network_exact(schemes, tcall[t].network, tcall[t].v)
       IN  IF r.kind = "return"
           THEN /\ lock' = Released
                /\ Returns(t, Dict(r.value))
           ELSE /\ tpc' = [tpc EXCEPT ![t] = "get_for_network_patterns"]
                /\ tret' = [tret EXCEPT ![t] = r]
                /\ UNCHANGED lock
    /\ UNCHANGED <<schemes, patterns, history, tcall>>

\* get_for_network(), lines 269-277
GetForNetworkPatterns(t) ==
    /\ tpc[t] = "get_for_network_patterns"
    /\ lock' = Released
    /\ Returns(t, Dict(get_for_network_patterns(
                           schemes, patterns, tcall[t].network, tcall[t].v,
                           tret[t].value, 1)))
    /\ UNCHANGED <<schemes, patterns, history, tcall>>

\* clear(version)
ClearCall(t, version) ==
    /\ tcall' = [tcall EXCEPT ![t] = [op |-> "clear", version |-> version]]
    /\ tpc' = [tpc EXCEPT ![t] = "clear_lock"]
    /\ UNCHANGED <<schemes, patterns, lock, history, tret>>

\* the register() calls a clear(version) leaves in force
Kept(h, version) ==
    SelectSeq(h, LAMBDA r : ~IsNone(version) /\ r.version # version.int)

\* clear(), lines 337-344
Clear(t) ==
    /\ tpc[t] = "clear"
    /\ schemes' = clear_schemes(schemes, tcall[t].version)
    /\ patterns' = clear_patterns(schemes, patterns, tcall[t].version)
    /\ history' = Kept(history, tcall[t].version)
    /\ lock' = Released
    /\ Returns(t, NoneValue)
    /\ UNCHANGED tcall

\* the caller takes the result; the thread is free for its next call
Done(t) ==
    /\ tpc[t] = "returned"
    /\ tpc' = [tpc EXCEPT ![t] = "idle"]
    /\ tcall' = [tcall EXCEPT ![t] = NoCall]
    /\ tret' = [tret EXCEPT ![t] = NoResult]
    /\ UNCHANGED <<schemes, patterns, lock, history>>

(***************************************************************************)
(* The callers of the registry and what they pass.                         *)
(***************************************************************************)
AnyNetwork == <<Star>>
Eip155Any == <<"e", "i", "p", "1", "5", "5", ":", "*">>
Eip155Base == <<"e", "i", "p", "1", "5", "5", ":", "8", "4", "5", "3">>
Eip155 == <<"e", "i", "p", "1", "5", "5">>
Eip155Prefix == Eip155 \o <<":">>
SolanaMainnet ==
    <<"s", "o", "l", "a", "n", "a", ":", "m", "a", "i", "n", "n", "e", "t">>

\* scheme objects: two named "exact", one named "upto", one without the
\* attribute
ExactA == [scheme |-> SCHEME_EXACT, id |-> "A"]
ExactB == [scheme |-> SCHEME_EXACT, id |-> "B"]
UptoC == [scheme |-> "upto", id |-> "C"]
Nameless == [id |-> "D"]

\* one caller, as at start-up
Callers == {"main"}
CallerInputs ==
    [networks |-> {AnyNetwork, Eip155Any, Eip155Base},
     objects |-> {ExactA, ExactB, UptoC, Nameless},
     versions |-> {NoneValue, IntValue(T402_VERSION_V1)},
     lookups |-> {Eip155Base, Eip155, SolanaMainnet},
     names |-> {SCHEME_EXACT, "upto"}]

\* two threads on one registry
Threads == {"t1", "t2"}
ThreadInputs ==
    [networks |-> {Eip155Any},
     objects |-> {ExactA},
     versions |-> {NoneValue},
     lookups |-> {Eip155Base},
     names |-> {SCHEME_EXACT}]

Register(t, I) ==
    /\ tpc[t] = "idle"
    /\ \E network \in I.networks, scheme \in I.objects, version \in I.versions :
           RegisterCall(t, network, scheme, version)

Lookup(t, I) ==
    /\ tpc[t] = "idle"
    /\ \E method \in {"get", "has_scheme"}, network \in I.lookups,
          scheme_name \in I.names, version \in I.versions :
           GetCall(t, method, network, scheme_name, version)

LookupForNetwork(t, I) ==
    /\ tpc[t] = "idle"
    /\ \E network \in I.lookups, version \in I.versions :
           GetForNetworkCall(t, network, version)

ClearAll(t, I) ==
    /\ tpc[t] = "idle"
    /\ history # <<>>
    /\ \E version \in I.versions : ClearCall(t, version)

\* the calls of the threads T, drawing their arguments from I; the
\* facilitator scheme is not involved
RegistryNext(T, I) ==
    \E t \in T :
        \/ Register(t, I) /\ UNCHANGED <<vars, client_vars, more_vars>>
        \/ Lookup(t, I) /\ UNCHANGED <<vars, client_vars, more_vars>>
        \/ LookupForNetwork(t, I) /\ UNCHANGED <<vars, client_vars, more_vars>>
        \/ ClearAll(t, I) /\ UNCHANGED <<vars, client_vars, more_vars>>
        \/ AcquireLock(t) /\ UNCHANGED <<vars, client_vars, more_vars>>
        \/ RegisterStore(t) /\ UNCHANGED <<vars, client_vars, more_vars>>
        \/ RegisterTrack(t) /\ UNCHANGED <<vars, client_vars, more_vars>>
        \/ GetExact(t) /\ UNCHANGED <<vars, client_vars, more_vars>>
        \/ GetPatterns(t) /\ UNCHANGED <<vars, client_vars, more_vars>>
        \/ GetForNetworkExact(t) /\ UNCHANGED <<vars, client_vars, more_vars>>
        \/ GetForNetworkPatterns(t) /\ UNCHANGED <<vars, client_vars, more_vars>>
        \/ Clear(t) /\ UNCHANGED <<vars, client_vars, more_vars>>
        \/ Done(t) /\ UNCHANGED <<vars, client_vars, more_vars>>

\* one caller registers, looks up and clears
RegistrySpecInit == Init /\ RegistryInit(Callers) /\ ClientInit({}) /\ MoreInit
RegistrySpec ==
    RegistrySpecInit /\ [][RegistryNext(Callers, CallerInputs)]_all_vars

\* two threads share the registry
ThreadsSpecInit == Init /\ RegistryInit(Threads) /\ ClientInit({}) /\ MoreInit
ThreadsSpec ==
    ThreadsSpecInit /\ [][RegistryNext(Threads, ThreadInputs)]_all_vars

(***************************************************************************)
(* _matches_network_pattern on its own: every pattern and every network of *)
(* at most MaxLen characters over a small alphabet, two that stand for     *)
(* themselves, the wildcard, the dot and a newline.                        *)
(***************************************************************************)
Alphabet == {"a", ":", Star, Dot, Newline}
Strings == SeqsUpTo(Alphabet, MaxLen)

MatchInit ==
    /\ schemes = [v \in {T402_VERSION_V1, T402_VERSION_V2} |-> EmptyDict]
    /\ patterns = [v \in {T402_VERSION_V1, T402_VERSION_V2} |-> <<>>]
    /\ lock = Unlocked
    /\ history = <<>>
    /\ tpc = [t \in Callers |-> "matching"]
    /\ \E pattern \in Strings, network \in Strings :
           tcall = [t \in Callers |->
                      [op |-> "_matches_network_pattern",
                       pattern |-> pattern, network |-> network]]
    /\ tret = [t \in Callers |-> NoResult]

Match(t) ==
    /\ tpc[t] = "matching"
    /\ Returns(t, Bool(_matches_network_pattern(tcall[t].pattern,
                                                tcall[t].network)))
    /\ UNCHANGED <<schemes, patterns, lock, history, tcall>>

MatchNext == \E t \in Callers : Match(t) /\ UNCHANGED <<vars, client_vars, more_vars>>

MatchSpecInit == Init /\ MatchInit /\ ClientInit({}) /\ MoreInit
MatchSpec == MatchSpecInit /\ [][MatchNext]_all_vars

(***************************************************************************)
(* Properties of the registry.  What a lookup should find is read off the  *)
(* history of the register() calls, not off the registry's own maps.       *)
(***************************************************************************)
Greatest(S) == CHOOSE i \in S : \A j \in S : j <= i

\* the register() calls in force that put a scheme of that name under
\* exactly this network (or pattern) and version
RegistrationsUnder(network, scheme_name, v) ==
    {i \in 1..Len(history) :
        /\ history[i].network = network
        /\ history[i].version = v
        /\ history[i].scheme.scheme = scheme_name}

\* the scheme the last of them registered
Registered(network, scheme_name, v) ==
    history[Greatest(RegistrationsUnder(network, scheme_name, v))].scheme

\* the wildcard patterns registered with that scheme name and version that
\* match the network
MatchingPatterns(network, scheme_name, v) ==
    {history[i].network : i \in
        {j \in 1..Len(history) :
            /\ history[j].version = v
            /\ history[j].scheme.scheme = scheme_name
            /\ Contains(history[j].network, Star)
            /\ _matches_network_pattern(history[j].network, network)}}

\* when a pattern was first registered under the version
FirstRegistration(pattern, v) ==
    Least({i \in 1..Len(history) :
              history[i].network = pattern /\ history[i].version = v})

GetReturned(t) == tpc[t] = "returned" /\ tcall[t].op = "get"

\* C11: when the network looked up has an exact registration and a matching
\* wildcard registration of the same version and scheme name, whichever
\* came first, get() returns the scheme of the exact registration.
ExactShadowsWildcard ==
    \A t \in DOMAIN tpc :
        LET c == tcall[t]
        IN  /\ GetReturned(t)
            /\ RegistrationsUnder(c.network, c.scheme_name, c.v) # {}
            /\ MatchingPatterns(c.network, c.scheme_name, c.v) # {}
            => tret[t] = Returned(Registered(c.network, c.scheme_name, c.v))

\* a get() answered by the exact registration although a matching wildcard
\* was registered after it with another scheme
ExactFoundDespiteWildcard ==
    \E t \in DOMAIN tpc :
        LET c == tcall[t]
            exact == RegistrationsUnder(c.network, c.scheme_name, c.v)
        IN  /\ GetReturned(t)
            /\ exact # {}
            /\ \E pattern \in MatchingPatterns(c.network, c.scheme_name, c.v) :
                   /\ FirstRegistration(pattern, c.v) > Greatest(exact)
                   /\ Registered(pattern, c.scheme_name, c.v) #
                          Registered(c.network, c.scheme_name, c.v)
            /\ tret[t] = Returned(Registered(c.network, c.scheme_name, c.v))

\* C12: with registrations under "eip155:*" only, a lookup of a network that
\* does not begin with "eip155:" finds nothing: get() returns None and
\* has_scheme() False.
WildcardIsolation ==
    \A t \in DOMAIN tpc :
        /\ tpc[t] = "returned"
        /\ tcall[t].op \in {"get", "has_scheme"}
        /\ \A i \in 1..Len(history) : history[i].network = Eip155Any
        /\ ~StartsWith(tcall[t].network, Eip155Prefix)
        => tret[t] = Returned(IF tcall[t].op = "get" THEN NoneValue
                              ELSE Bool(FALSE))

\* "solana:mainnet" looked up, and not found, where "eip155:*" holds the
\* scheme name asked for
OtherFamilyNotFound ==
    \E t \in DOMAIN tpc :
        /\ GetReturned(t)
        /\ tcall[t].network = SolanaMainnet
        /\ \A i \in 1..Len(history) : history[i].network = Eip155Any
        /\ RegistrationsUnder(Eip155Any, tcall[t].scheme_name, tcall[t].v) # {}
        /\ tret[t] = Returned(NoneValue)

\* the matching the registry documents: identical strings, "*", or a prefix
\* free of wildcards followed by one trailing "*"
TrailingWildcardMatch(pattern, network) ==
    \/ pattern = network
    \/ pattern = <<Star>>
    \/ /\ pattern # <<>>
       /\ pattern[Len(pattern)] = Star
       /\ ~Contains(SubSeq(pattern, 1, Len(pattern) - 1), Star)
       /\ StartsWith(network, SubSeq(pattern, 1, Len(pattern) - 1))

\* C13: a pattern matches a network exactly when they are identical, or the
\* pattern is "*", or the pattern is a literal prefix followed by a single
\* trailing "*" and the network begins with that prefix.
MatchesAsDocumented ==
    \A t \in DOMAIN tpc :
        /\ tpc[t] = "returned"
        /\ tcall[t].op = "_matches_network_pattern"
        => tret[t] = Returned(Bool(TrailingWildcardMatch(tcall[t].pattern,
                                                         tcall[t].network)))

\* the patterns that qualify for a lookup, and the one registered first
Earliest(qualifying, v) ==
    CHOOSE pattern \in qualifying :
        \A other \in qualifying :
            FirstRegistration(pattern, v) <= FirstRegistration(other, v)

\* C14: when no exact entry of the network holds the scheme name, get()
\* returns the scheme held by the matching pattern whose first registration
\* came earliest, and None when no pattern matches and holds the name.
FirstRegisteredPatternWins ==
    \A t \in DOMAIN tpc :
        LET c == tcall[t]
            qualifying == MatchingPatterns(c.network, c.scheme_name, c.v)
        IN  /\ GetReturned(t)
            /\ RegistrationsUnder(c.network, c.scheme_name, c.v) = {}
            => tret[t] = Returned(
                   IF qualifying = {} THEN NoneValue
                   ELSE Registered(Earliest(qualifying, c.v), c.scheme_name,
                                   c.v))

\* a get() that two patterns holding different schemes qualify for
SeveralPatternsQualified ==
    \E t \in DOMAIN tpc :
        LET c == tcall[t]
            qualifying == MatchingPatterns(c.network, c.scheme_name, c.v)
        IN  /\ GetReturned(t)
            /\ RegistrationsUnder(c.network, c.scheme_name, c.v) = {}
            /\ \E p1 \in qualifying, p2 \in qualifying :
                   Registered(p1, c.scheme_name, c.v) #
                       Registered(p2, c.scheme_name, c.v)

\* every wildcard key of the scheme map is in the pattern list, and the
\* reverse
Tracked ==
    \A v \in DOMAIN schemes :
        {n \in DOMAIN schemes[v] : Contains(n, Star)} =
            {patterns[v][i] : i \in 1..Len(patterns[v])}

LookupSteps ==
    {"get_exact", "get_patterns", "get_for_network_exact",
     "get_for_network_patterns"}
LookupLocks == {"get_lock", "get_for_network_lock"}
Mutating == {t \in DOMAIN tpc : tpc[t] \in {"register_store", "register_track", "clear"}}

\* C15: register() is atomic for the threads that run beside it: a lookup at
\* work never sees a wildcard in the scheme map that the pattern list
\* misses (or the reverse), and no two threads are inside the updates of
\* register() or clear() at once.
RegisterIsAtomic ==
    /\ (\E t \in DOMAIN tpc : tpc[t] \in LookupSteps) => Tracked
    /\ Cardinality(Mutating) <= 1

\* a register() halfway, its pattern stored and not yet tracked, while
\* another thread stands at the lock of a lookup
HalfRegisteredWhileLookupWaits ==
    \E t1 \in DOMAIN tpc, t2 \in DOMAIN tpc :
        /\ tpc[t1] = "register_track"
        /\ ~Tracked
        /\ tpc[t2] \in LookupLocks

\* C16: lookups do not block each other: while a thread is inside get(),
\* has_scheme() or get_for_network(), no other thread's lookup has to wait
\* for it.
LookupsNeverWait ==
    \A t1 \in DOMAIN tpc, t2 \in DOMAIN tpc :
        ~ /\ t1 # t2
          /\ tpc[t1] \in LookupSteps
          /\ tpc[t2] \in LookupLocks
          /\ ~CanAcquire(t2)

(***************************************************************************)
(* The client schemes.  An address, an amount or a network that the code   *)
(* looks into is the sequence of its characters.  A call runs from one     *)
(* await to the next in one step; what it awaits returns or raises.        *)
(***************************************************************************)
\* latest reading of the clock, in microseconds
MaxClock == 1

Upper ==
    {"A", "B", "C", "D", "E", "F", "G", "H", "I", "J", "K", "L", "M", "N", "O",
     "P", "Q", "R", "S", "T", "U", "V", "W", "X", "Y", "Z"}
Lower ==
    {"a", "b", "c", "d", "e", "f", "g", "h", "i", "j", "k", "l", "m", "n", "o",
     "p", "q", "r", "s", "t", "u", "v", "w", "x", "y", "z"}
Repeat(c, n) == [i \in 1..n |-> c]

\* a key the dict does not hold
Absent == <<"<absent>">>
\* the requirements dict of a network with those of the fields that are present
RequirementsOf(network, fields) ==
    [k \in {"network"} \cup {x \in DOMAIN fields : fields[x] # Absent} |->
        IF k = "network" THEN network ELSE fields[k]]
\* `not s` of a str
Empty(s) == s = <<>>
\* a or b
Or(a, b) == IF a = Absent \/ Empty(a) THEN b ELSE a

\* int(s) of a decimal string that may carry a minus sign
PyIntSigned(s) ==
    IF s # <<>> /\ s[1] = "-"
    THEN LET r == PyInt(Tail(s))
         IN  IF r.ok THEN [ok |-> TRUE, value |-> 0 - r.value] ELSE r
    ELSE PyInt(s)
\* str(n) of an integer
PyStrSigned(n) == IF n < 0 THEN <<"-">> \o PyStr(0 - n) ELSE PyStr(n)

ValueError(message) == [type |-> "ValueError", message |-> message]
\* ValueError(f"{message}: {value}")
ValueErrorOf(message, value) ==
    [type |-> "ValueError", message |-> message, value |-> value]
\* what int() raises
InvalidLiteral(s) == ValueErrorOf("invalid literal for int() with base 10", s)
SignerError == [type |-> "Exception", message |-> "signer failed"]

\* the call goes on to await a method of its signer
Awaits(t, method, arguments, locals) ==
    /\ cpc' = [cpc EXCEPT ![t] = "awaiting"]
    /\ csigned' = [csigned EXCEPT ![t] =
                     Append(@, [method |-> method, arguments |-> arguments])]
    /\ clocal' = [clocal EXCEPT ![t] = [awaiting |-> method, locals |-> locals]]
    /\ UNCHANGED cret

ClientReturns(t, value) ==
    /\ cpc' = [cpc EXCEPT ![t] = "returned"]
    /\ cret' = [cret EXCEPT ![t] = Returned(value)]
    /\ UNCHANGED <<csigned, clocal>>

ClientRaises(t, exc) ==
    /\ cpc' = [cpc EXCEPT ![t] = "returned"]
    /\ cret' = [cret EXCEPT ![t] = Raised(exc)]
    /\ UNCHANGED <<csigned, clocal>>

Awaiting(t, method) == cpc[t] = "awaiting" /\ clocal[t].awaiting = method

\* the payload dict of the two protocol versions
PaymentPayload(t402_version, network, payload_data) ==
    IF t402_version = T402_VERSION_V1
    THEN [t402Version |-> T402_VERSION_V1, scheme |-> SCHEME_EXACT,
          network |-> network, payload |-> payload_data]
    ELSE [t402Version |-> T402_VERSION_V2, payload |-> payload_data]

(***************************************************************************)
(* TRON: t402/tron.py and schemes/tron/exact/client.py.                    *)
(***************************************************************************)
TRON_ADDRESS_PREFIX == "T"
TRON_ADDRESS_LENGTH == 34
DEFAULT_FEE_LIMIT == 100000000
\* the characters of TRON_ADDRESS_REGEX, ^T[1-9A-HJ-NP-Za-km-z]{33}$
Base58Chars ==
    (DigitChars \ {"0"}) \cup (Upper \ {"I", "O"}) \cup (Lower \ {"l"})

validate_tron_address(address) ==
    /\ ~Empty(address)
    /\ Len(address) = TRON_ADDRESS_LENGTH
    /\ address[1] = TRON_ADDRESS_PREFIX
    /\ \A i \in 2..Len(address) : address[i] \in Base58Chars

\* create_payment_payload with the validation of lines 197-210 left out
TronCreateUnchecked(t, _signer, t402_version, req) ==
    /\ ccall' = [ccall EXCEPT ![t] =
                   [family |-> "tron", signer |-> _signer,
                    t402_version |-> t402_version, requirements |-> req]]
    /\ Awaits(t, "get_block_info", <<>>,
              [network |-> Get(req, "network", ""),
               asset |-> Get(req, "asset", <<>>),
               amount |-> Get(req, "amount", <<"0">>),
               pay_to |-> Get(req, "payTo", <<>>),
               max_timeout |-> Get(req, "maxTimeoutSeconds", 300)])
    /\ UNCHANGED <<clock, draws>>

\* ExactTronClientScheme.create_payment_payload, lines 183-213
TronCreate(t, _signer, t402_version, req) ==
    LET network == Get(req, "network", "")
        asset == Get(req, "asset", <<>>)
        amount == Get(req, "amount", <<"0">>)
        pay_to == Get(req, "payTo", <<>>)
        max_timeout == Get(req, "maxTimeoutSeconds", 300)
    IN  /\ ccall' = [ccall EXCEPT ![t] =
                       [family |-> "tron", signer |-> _signer,
                        t402_version |-> t402_version, requirements |-> req]]
        /\ IF Empty(asset)
           THEN ClientRaises(t, ValueError(
                    "Asset (TRC-20 contract address) is required"))
           ELSE IF Empty(pay_to)
           THEN ClientRaises(t, ValueError("PayTo address is required"))
           ELSE IF Empty(amount)
           THEN ClientRaises(t, ValueError("Amount is required"))
           ELSE IF ~validate_tron_address(asset)
           THEN ClientRaises(t, ValueErrorOf(
                    "Invalid TRC-20 contract address", asset))
           ELSE IF ~validate_tron_address(pay_to)
           THEN ClientRaises(t, ValueErrorOf("Invalid payTo address", pay_to))
           ELSE IF ~validate_tron_address(_signer.address)
           THEN ClientRaises(t, ValueErrorOf(
                    "Invalid signer address", _signer.address))
           ELSE Awaits(t, "get_block_info", <<>>,
                       [network |-> network, asset |-> asset,
                        amount |-> amount, pay_to |-> pay_to,
                        max_timeout |-> max_timeout])
        /\ UNCHANGED <<clock, draws>>

\* lines 213-228: get_block_info has returned block_info, or raised
TronBlockInfo(t, outcome) ==
    /\ Awaiting(t, "get_block_info")
    /\ IF outcome.kind = "raise" THEN ClientRaises(t, outcome.exc)
       ELSE LET l == clocal[t].locals
                block_info == outcome.value
                now_ms == clock \div 1000
                given_expiration == Get(block_info, "expiration", 0)
                expiration == IF given_expiration # 0 THEN given_expiration
                              ELSE now_ms + l.max_timeout * 1000
            IN  Awaits(t, "sign_transaction",
                       [contract_address |-> l.asset, to |-> l.pay_to,
                        amount |-> l.amount, fee_limit |-> DEFAULT_FEE_LIMIT,
                        expiration |-> expiration],
                       [network |-> l.network, asset |-> l.asset,
                        amount |-> l.amount, pay_to |-> l.pay_to,
                        ref_block_bytes |-> Get(block_info, "ref_block_bytes", ""),
                        ref_block_hash |-> Get(block_info, "ref_block_hash", ""),
                        now_ms |-> now_ms, expiration |-> expiration])
    /\ UNCHANGED <<ccall, clock, draws>>

\* lines 222-260: sign_transaction has returned, or raised; the amount is
\* validated by TronAuthorization (tron.py, lines 153-159)
TronSign(t, outcome) ==
    /\ Awaiting(t, "sign_transaction")
    /\ ccall[t].family = "tron"
    /\ LET l == clocal[t].locals
       IN  IF outcome.kind = "raise" THEN ClientRaises(t, outcome.exc)
           ELSE IF ~PyIntSigned(l.amount).ok
           THEN ClientRaises(t, [type |-> "ValidationError",
                                 message |-> "amount must be an integer encoded as a string"])
           ELSE ClientReturns(t, PaymentPayload(
                    ccall[t].t402_version, l.network,
                    [signedTransaction |-> outcome.value,
                     authorization |->
                        [from |-> ccall[t].signer.address, to |-> l.pay_to,
                         contractAddress |-> l.asset, amount |-> l.amount,
                         expiration |-> l.expiration,
                         refBlockBytes |-> l.ref_block_bytes,
                         refBlockHash |-> l.ref_block_hash,
                         timestamp |-> l.now_ms]]))
    /\ UNCHANGED <<ccall, clock, draws>>

\* what the model passes to the TRON scheme
TronUsdt == <<"T">> \o Repeat("R", 33)
TronMerchant == <<"T">> \o Repeat("M", 33)
TronPayer == <<"T">> \o Repeat("P", 33)
\* 34 characters, one of them outside the base58 alphabet
TronZero == <<"T">> \o Repeat("0", 33)
InvalidAddress ==
    <<"i", "n", "v", "a", "l", "i", "d", "-", "a", "d", "d", "r", "e", "s", "s">>
TronSigners == {[address |-> TronPayer], [address |-> InvalidAddress]}
TronRequirements ==
    {RequirementsOf("tron:mainnet", [asset |-> a, amount |-> m, payTo |-> p]) :
        a \in {Absent, <<>>, TronUsdt, TronZero},
        m \in {Absent, <<>>, <<"1">>, <<"x">>},
        p \in {Absent, TronMerchant, InvalidAddress}}
BlockInfos ==
    {[ref_block_bytes |-> "ab12", ref_block_hash |-> "cd34", expiration |-> 5000],
     [ref_block_bytes |-> "ab12"]}
Versions == {T402_VERSION_V1, T402_VERSION_V2}

TronCall(T, I) ==
    \E t \in T :
        /\ cpc[t] = "idle"
        /\ \E s \in I.tron_signers, v \in I.versions, r \in I.tron_requirements :
              TronCreate(t, s, v, r)

TronBlockInfoDone(T, I) ==
    \E t \in T :
        \E o \in {Returned(b) : b \in I.block_infos} \cup {Raised(SignerError)} :
            TronBlockInfo(t, o)

TronSignDone(T, I) ==
    \E t \in T :
        \E o \in {Returned("signed"), Raised(SignerError)} :
            TronSign(t, o)

\* time.time() moves on between any two steps
Tick ==
    /\ clock < MaxClock
    /\ clock' = clock + 1
    /\ UNCHANGED <<cpc, ccall, clocal, csigned, cret, draws>>

(***************************************************************************)
(* EVM: schemes/evm/exact/client.py.  The call has no await: it signs with *)
(* the signer's synchronous sign_typed_data and returns in one step.       *)
(***************************************************************************)
\* the part of s before its first ":"
UpToColon(s) ==
    LET colons == {i \in 1..Len(s) : s[i] = ":"}
    IN  IF colons = {} THEN s
        ELSE SubSeq(s, 1, (CHOOSE i \in colons : \A j \in colons : i <= j) - 1)

\* _get_chain_id of a CAIP-2 network, int(network.split(":")[1]); the
\* networks of EvmRequirements all start with "eip155:"
_get_chain_id(network) ==
    PyIntSigned(UpToColon(SubSeq(network, Len(Eip155Prefix) + 1, Len(network))))

\* secrets.token_bytes(32): the n-th draw, unlike every other draw
create_nonce(n) == [random |-> n]
\* f"0x{nonce.hex()}"
HexOf(nonce) == [hex |-> nonce]

\* signed.signature.hex(), prefixed with "0x" unless it has the prefix
SignatureHex(hex) ==
    IF StartsWith(hex, <<"0", "x">>) THEN hex ELSE <<"0", "x">> \o hex

\* ExactEvmClientScheme.create_payment_payload and _sign_authorization
EvmCreate(t, _signer, t402_version, req, outcome) ==
    LET network == Get(req, "network", <<>>)
        chain_id == _get_chain_id(network)
        amount == Or(Get(req, "amount", Absent),
                     Get(req, "maxAmountRequired", <<"0">>))
        pay_to == Or(Get(req, "payTo", Absent), Get(req, "pay_to", <<>>))
        asset == Get(req, "asset", <<>>)
        given_timeout == Get(req, "maxTimeoutSeconds", 0)
        max_timeout == IF given_timeout # 0 THEN given_timeout
                       ELSE Get(req, "max_timeout_seconds", 300)
        extra == Get(req, "extra", EmptyDict)
        nonce == create_nonce(draws + 1)
        now == clock \div 1000000
        valid_after == PyStrSigned(now - 60)
        valid_before == PyStrSigned(now + max_timeout)
        authorization ==
            [from |-> _signer.address, to |-> pay_to, value |-> amount,
             validAfter |-> valid_after, validBefore |-> valid_before,
             nonce |-> HexOf(nonce)]
        domain == [name |-> Get(extra, "name", "USD Coin"),
                   version |-> Get(extra, "version", "2"),
                   chainId |-> chain_id.value, verifyingContract |-> asset]
        message == [from |-> _signer.address, to |-> pay_to,
                    value |-> PyIntSigned(amount).value,
                    validAfter |-> PyIntSigned(valid_after).value,
                    validBefore |-> PyIntSigned(valid_before).value,
                    nonce |-> nonce]
    IN  /\ ccall' = [ccall EXCEPT ![t] =
                       [family |-> "evm", signer |-> _signer,
                        t402_version |-> t402_version, requirements |-> req]]
        /\ cpc' = [cpc EXCEPT ![t] = "returned"]
        /\ IF ~chain_id.ok
           THEN /\ cret' = [cret EXCEPT ![t] =
                              Raised(InvalidLiteral(network))]
                /\ UNCHANGED <<csigned, draws>>
           ELSE /\ draws' = draws + 1
                /\ IF ~PyIntSigned(amount).ok
                   THEN /\ cret' = [cret EXCEPT ![t] =
                                      Raised(InvalidLiteral(amount))]
                        /\ UNCHANGED csigned
                   ELSE /\ csigned' = [csigned EXCEPT ![t] =
                              Append(@, [method |-> "sign_typed_data",
                                         arguments |->
                                            [domain_data |-> domain,
                                             message_data |-> message]])]
                        /\ cret' = [cret EXCEPT ![t] =
                              IF outcome.kind = "raise" THEN outcome
                              ELSE Returned(PaymentPayload(
                                      t402_version, network,
                                      [signature |-> SignatureHex(outcome.value),
                                       authorization |-> authorization]))]
        /\ UNCHANGED <<clocal, clock>>

\* what the model passes to the EVM scheme
EvmUsdc == <<"0", "x", "C">>
EvmMerchant == <<"0", "x", "M">>
EvmPayer == <<"0", "x", "P">>
EvmSigners == {[address |-> EvmPayer]}
EvmRequirements ==
    {RequirementsOf(n, [asset |-> a, amount |-> m, payTo |-> p]) :
        n \in {Eip155Base, Eip155Prefix},
        a \in {Absent, EvmUsdc},
        m \in {Absent, <<>>, <<"1">>, <<"x">>},
        p \in {Absent, EvmMerchant}}
EvmSignatures == {<<"a", "b">>, <<"0", "x", "a", "b">>}

EvmCall(T, I) ==
    \E t \in T :
        /\ cpc[t] = "idle"
        /\ \E s \in I.evm_signers, v \in I.versions, r \in I.evm_requirements :
              \E o \in {Returned(g) : g \in I.evm_signatures}
                       \cup {Raised(SignerError)} :
                  EvmCreate(t, s, v, r, o)

(***************************************************************************)
(* TON: t402/ton.py and schemes/ton/exact/client.py.                       *)
(***************************************************************************)
JETTON_TRANSFER_OP == 260734629
DEFAULT_JETTON_TRANSFER_TON == 100000000
DEFAULT_FORWARD_TON == 1
HexChars == DigitChars \cup {"a", "b", "c", "d", "e", "f", "A", "B", "C", "D", "E", "F"}
Base64UrlChars == Upper \cup Lower \cup DigitChars \cup {"_", "-"}

\* what a regex ending in "$" may match of s: s, or s without a last newline
UpToDollar(s) ==
    {s} \cup (IF s # <<>> /\ s[Len(s)] = Newline
              THEN {SubSeq(s, 1, Len(s) - 1)} ELSE {})

\* TON_FRIENDLY_ADDRESS_REGEX, ^[A-Za-z0-9_-]{46,48}$
FriendlyAddress(s) ==
    /\ Len(s) \in 46..48
    /\ \A i \in 1..Len(s) : s[i] \in Base64UrlChars

\* TON_RAW_ADDRESS_REGEX, ^-?[0-9]:[a-fA-F0-9]{64}$
RawAddress(s) ==
    LET r == IF s # <<>> /\ s[1] = "-" THEN Tail(s) ELSE s
    IN  /\ Len(r) = 66
        /\ r[1] \in DigitChars
        /\ r[2] = ":"
        /\ \A i \in 3..66 : r[i] \in HexChars

validate_ton_address(address) ==
    /\ ~Empty(address)
    /\ \E s \in UpToDollar(address) : FriendlyAddress(s) \/ RawAddress(s)

\* generate_query_id: int(time.time() * 1000000), the clock in microseconds
generate_query_id == clock

\* _build_jetton_transfer_body
_build_jetton_transfer_body(query_id, amount, destination, response, forward) ==
    [op |-> JETTON_TRANSFER_OP, query_id |-> query_id, amount |-> amount,
     destination |-> destination, response_destination |-> response,
     forward_amount |-> forward]

\* ExactTonClientScheme.create_payment_payload, lines 183-209
TonCreate(t, _signer, t402_version, req) ==
    LET network == Get(req, "network", "")
        asset == Get(req, "asset", <<>>)
        amount == Get(req, "amount", <<"0">>)
        pay_to == Get(req, "payTo", <<>>)
        max_timeout == Get(req, "maxTimeoutSeconds", 300)
    IN  /\ ccall' = [ccall EXCEPT ![t] =
                       [family |-> "ton", signer |-> _signer,
                        t402_version |-> t402_version, requirements |-> req]]
        /\ IF Empty(asset)
           THEN ClientRaises(t, ValueError(
                    "Asset (Jetton master address) is required"))
           ELSE IF Empty(pay_to)
           THEN ClientRaises(t, ValueError("PayTo address is required"))
           ELSE IF Empty(amount)
           THEN ClientRaises(t, ValueError("Amount is required"))
           ELSE IF ~validate_ton_address(pay_to)
           THEN ClientRaises(t, ValueErrorOf("Invalid payTo address", pay_to))
           ELSE Awaits(t, "get_jetton_wallet_address",
                       [owner |-> _signer.address, jetton_master |-> asset],
                       [network |-> network, asset |-> asset,
                        amount |-> amount, pay_to |-> pay_to,
                        max_timeout |-> max_timeout])
        /\ UNCHANGED <<clock, draws>>

\* lines 206-212: the resolver has returned the sender's Jetton wallet
TonJettonWallet(t, outcome) ==
    /\ Awaiting(t, "get_jetton_wallet_address")
    /\ IF outcome.kind = "raise" THEN ClientRaises(t, outcome.exc)
       ELSE Awaits(t, "get_seqno", <<>>,
                   [network |-> clocal[t].locals.network,
                    asset |-> clocal[t].locals.asset,
                    amount |-> clocal[t].locals.amount,
                    pay_to |-> clocal[t].locals.pay_to,
                    max_timeout |-> clocal[t].locals.max_timeout,
                    sender_jetton_wallet |-> outcome.value])
    /\ UNCHANGED <<ccall, clock, draws>>

\* lines 212-239: get_seqno has returned; the validity period, the query
\* id and the transfer body are computed and sign_message is awaited
TonSeqno(t, outcome) ==
    /\ Awaiting(t, "get_seqno")
    /\ LET l == clocal[t].locals
           now == clock \div 1000000
           valid_until == now + l.max_timeout
           query_id == generate_query_id
           jetton_amount == PyIntSigned(l.amount)
       IN  IF outcome.kind = "raise" THEN ClientRaises(t, outcome.exc)
           ELSE IF ~jetton_amount.ok
           THEN ClientRaises(t, InvalidLiteral(l.amount))
           ELSE Awaits(t, "sign_message",
                       [to |-> l.sender_jetton_wallet,
                        value |-> DEFAULT_JETTON_TRANSFER_TON,
                        body |-> _build_jetton_transfer_body(
                                    query_id, jetton_amount.value, l.pay_to,
                                    ccall[t].signer.address,
                                    DEFAULT_FORWARD_TON),
                        timeout |-> l.max_timeout],
                       [network |-> l.network, asset |-> l.asset,
                        pay_to |-> l.pay_to, valid_until |-> valid_until,
                        seqno |-> outcome.value, query_id |-> query_id,
                        jetton_amount |-> jetton_amount.value])
    /\ UNCHANGED <<ccall, clock, draws>>

\* lines 234-274: sign_message has returned the signed message
TonSign(t, outcome) ==
    /\ Awaiting(t, "sign_message")
    /\ LET l == clocal[t].locals
       IN  IF outcome.kind = "raise" THEN ClientRaises(t, outcome.exc)
           ELSE ClientReturns(t, PaymentPayload(
                    ccall[t].t402_version, l.network,
                    [signedBoc |-> outcome.value,
                     authorization |->
                        [from |-> ccall[t].signer.address, to |-> l.pay_to,
                         jettonMaster |-> l.asset,
                         jettonAmount |-> PyStrSigned(l.jetton_amount),
                         tonAmount |-> PyStr(DEFAULT_JETTON_TRANSFER_TON),
                         validUntil |-> l.valid_until, seqno |-> l.seqno,
                         queryId |-> PyStr(l.query_id)]]))
    /\ UNCHANGED <<ccall, clock, draws>>

\* what the model passes to the TON scheme
TonUsdt == <<"E", "Q">> \o Repeat("U", 46)
TonMerchant == <<"E", "Q">> \o Repeat("M", 46)
TonPayer == <<"E", "Q">> \o Repeat("P", 46)
TonRawMerchant == <<"0", ":">> \o Repeat("a", 64)
TonSigners == {[address |-> TonPayer]}
TonRequirements ==
    {RequirementsOf("ton:mainnet", [asset |-> a, amount |-> m, payTo |-> p]) :
        a \in {Absent, <<>>, TonUsdt},
        m \in {Absent, <<>>, <<"1">>, <<"x">>},
        p \in {Absent, TonMerchant, TonRawMerchant, TonMerchant \o <<Newline>>,
               InvalidAddress}}

TonCall(T, I) ==
    \E t \in T :
        /\ cpc[t] = "idle"
        /\ \E s \in I.ton_signers, v \in I.versions, r \in I.ton_requirements :
              TonCreate(t, s, v, r)

TonJettonWalletDone(T, I) ==
    \E t \in T :
        \E o \in {Returned("EQSenderJettonWallet"), Raised(SignerError)} :
            TonJettonWallet(t, o)

TonSeqnoDone(T, I) ==
    \E t \in T :
        \E o \in {Returned(7), Raised(SignerError)} : TonSeqno(t, o)

TonSignDone(T, I) ==
    \E t \in T :
        \E o \in {Returned("boc"), Raised(SignerError)} : TonSign(t, o)

(***************************************************************************)
(* SVM: ExactSvmClientScheme of t402/svm.py.  Its addresses and            *)
(* transactions are those of the facilitator model above.                  *)
(***************************************************************************)
DEFAULT_VALIDITY_DURATION == 3600

\* ExactSvmClientScheme.create_payment_payload, line 1147
SvmCreate(t, _signer, req) ==
    /\ ccall' = [ccall EXCEPT ![t] =
                   [family |-> "svm", signer |-> _signer, requirements |-> req]]
    /\ Awaits(t, "build_transaction", <<>>, EmptyDict)
    /\ UNCHANGED <<clock, draws>>

\* lines 1147-1153: build_transaction has returned the unsigned transaction
SvmBuild(t, outcome) ==
    /\ Awaiting(t, "build_transaction")
    /\ IF outcome.kind = "raise" THEN ClientRaises(t, outcome.exc)
       ELSE Awaits(t, "sign_transaction",
                   [tx |-> outcome.value,
                    network |-> Get(ccall[t].requirements, "network",
                                    SOLANA_MAINNET)],
                   [unsigned_tx |-> outcome.value])
    /\ UNCHANGED <<ccall, clock, draws>>

\* lines 1150-1183: sign_transaction has returned the signed transaction
SvmSign(t, outcome) ==
    /\ Awaiting(t, "sign_transaction")
    /\ ccall[t].family = "svm"
    /\ LET req == ccall[t].requirements
           transfer == parse_transfer_checked_instruction(outcome.value)
           now == clock \div 1000000
           valid_until ==
               now + Get(req, "maxTimeoutSeconds", DEFAULT_VALIDITY_DURATION)
           extra == Get(req, "extra", Dict(EmptyDict))
           authorization ==
               IF transfer.found
               THEN Dict([from |-> ccall[t].signer.address,
                          to |-> Get(req, "payTo", ""),
                          mint |-> transfer.details.mint,
                          amount |-> PyStr(transfer.details.amount),
                          validUntil |-> valid_until,
                          feePayer |-> Get(extra.dict, "feePayer", None)])
               ELSE NoneValue
       IN  IF outcome.kind = "raise" THEN ClientRaises(t, outcome.exc)
           ELSE IF transfer.found /\ extra = NoneValue
           THEN ClientRaises(t, [type |-> "AttributeError",
                                 message |-> "'NoneType' object has no attribute 'get'"])
           ELSE ClientReturns(t,
                    [t402Version |-> Get(req, "t402Version", 1),
                     scheme |-> SCHEME_EXACT,
                     network |-> Get(req, "network", SOLANA_MAINNET),
                     payload |-> [transaction |-> outcome.value,
                                  authorization |-> authorization]])
    /\ UNCHANGED <<ccall, clock, draws>>

\* what the model passes to the SVM scheme
SvmSigners == {[address |-> "Client"]}
SvmRequirements ==
    {[network |-> SOLANA_MAINNET, payTo |-> p, extra |-> x] :
        p \in {"Merchant", "MerchantATA"},
        x \in {NoneValue, Dict(EmptyDict), Dict([feePayer |-> "FacilitatorA"])}}
    \cup {[network |-> SOLANA_DEVNET, t402Version |-> T402_VERSION_V2]}
\* what build_transaction returns
BuiltTransactions ==
    {tx \in Transactions :
        tx.tag = "tx" => Key(tx.account_keys, 0) = "FacilitatorA"}

SvmCall(T, I) ==
    \E t \in T :
        /\ cpc[t] = "idle"
        /\ \E s \in I.svm_signers, r \in I.svm_requirements : SvmCreate(t, s, r)

SvmBuildDone(T, I) ==
    \E t \in T :
        \E o \in {Returned(tx) : tx \in I.svm_transactions}
                 \cup {Raised(SignerError)} :
            SvmBuild(t, o)

\* the signer returns the transaction it was given, signed
SvmSignDone(T, I) ==
    \E t \in T :
        /\ Awaiting(t, "sign_transaction")
        /\ ccall[t].family = "svm"
        /\ \E o \in {Returned(clocal[t].locals.unsigned_tx), Raised(SignerError)} :
              SvmSign(t, o)

Tasks == {"task"}
TaskInputs ==
    [tron_signers |-> TronSigners, tron_requirements |-> TronRequirements,
     block_infos |-> BlockInfos, versions |-> Versions,
     evm_signers |-> EvmSigners, evm_requirements |-> EvmRequirements,
     evm_signatures |-> EvmSignatures,
     ton_signers |-> TonSigners, ton_requirements |-> TonRequirements,
     svm_signers |-> SvmSigners, svm_requirements |-> SvmRequirements,
     svm_transactions |-> BuiltTransactions]

\* two payments of one payer at a time, each with requirements that pass
Payments == {"p1", "p2"}
PaymentInputs ==
    [tron_signers |-> {[address |-> TronPayer]},
     tron_requirements |->
        {RequirementsOf("tron:mainnet",
            [asset |-> TronUsdt, amount |-> <<"1">>, payTo |-> TronMerchant])},
     block_infos |-> {[ref_block_bytes |-> "ab12"]},
     versions |-> {T402_VERSION_V2},
     evm_signers |-> EvmSigners,
     evm_requirements |->
        {RequirementsOf(Eip155Base,
            [asset |-> EvmUsdc, amount |-> <<"1">>, payTo |-> EvmMerchant])},
     evm_signatures |-> {<<"a", "b">>},
     ton_signers |-> TonSigners,
     ton_requirements |->
        {RequirementsOf("ton:mainnet",
            [asset |-> TonUsdt, amount |-> <<"1">>, payTo |-> TonMerchant])},
     svm_signers |-> SvmSigners,
     svm_requirements |->
        {[network |-> SOLANA_MAINNET, payTo |-> "Merchant",
          extra |-> Dict(EmptyDict)]},
     svm_transactions |->
        {[tag |-> "tx", account_keys |-> AccountKeys("FacilitatorA"),
          instructions |-> <<Ix(5, <<2, 3, 4, 1>>, TransferCheckedData(1))>>]}]

ClientNext(T, I) ==
    \/ TronCall(T, I) /\ UNCHANGED <<vars, registry_vars, more_vars>>
    \/ TronBlockInfoDone(T, I) /\ UNCHANGED <<vars, registry_vars, more_vars>>
    \/ TronSignDone(T, I) /\ UNCHANGED <<vars, registry_vars, more_vars>>
    \/ EvmCall(T, I) /\ UNCHANGED <<vars, registry_vars, more_vars>>
    \/ TonCall(T, I) /\ UNCHANGED <<vars, registry_vars, more_vars>>
    \/ TonJettonWalletDone(T, I) /\ UNCHANGED <<vars, registry_vars, more_vars>>
    \/ TonSeqnoDone(T, I) /\ UNCHANGED <<vars, registry_vars, more_vars>>
    \/ TonSignDone(T, I) /\ UNCHANGED <<vars, registry_vars, more_vars>>
    \/ SvmCall(T, I) /\ UNCHANGED <<vars, registry_vars, more_vars>>
    \/ SvmBuildDone(T, I) /\ UNCHANGED <<vars, registry_vars, more_vars>>
    \/ SvmSignDone(T, I) /\ UNCHANGED <<vars, registry_vars, more_vars>>
    \/ Tick /\ UNCHANGED <<vars, registry_vars, more_vars>>

ClientSpecInit == Init /\ RegistryInit({}) /\ ClientInit(Tasks) /\ MoreInit
ClientSpec == ClientSpecInit /\ [][ClientNext(Tasks, TaskInputs)]_all_vars

PaymentsSpecInit == Init /\ RegistryInit({}) /\ ClientInit(Payments) /\ MoreInit
PaymentsSpec ==
    PaymentsSpecInit /\ [][ClientNext(Payments, PaymentInputs)]_all_vars

(***************************************************************************)
(* Properties of the client schemes.                                       *)
(***************************************************************************)
CalledFamily(t, family) == ccall[t] # NoCall /\ ccall[t].family = family
Rejected(t) == cpc[t] = "returned" /\ cret[t].kind = "raise"
\* the call was rejected by the validation of its input
RejectedInput(t) == Rejected(t) /\ cret[t].exc.type = "ValueError"
NeverAwaited(t) == csigned[t] = <<>>
\* requirements that are complete and valid but for their payTo
OnlyPayToInvalid(t) ==
    /\ CalledFamily(t, "tron")
    /\ ccall[t].signer.address = TronPayer
    /\ Get(ccall[t].requirements, "asset", Absent) = TronUsdt
    /\ Get(ccall[t].requirements, "amount", Absent) = <<"1">>
    /\ Get(ccall[t].requirements, "payTo", Absent) = InvalidAddress

\* C17: the TRON client scheme given payTo="invalid-address" raises a
\* validation error naming "Invalid payTo address", and whenever it rejects
\* its input (a missing field, an invalid asset, payTo or signer address) it
\* has made no call to the signer's get_block_info or sign_transaction.
TronRejectsBeforeSigner ==
    \A t \in DOMAIN cpc :
        /\ CalledFamily(t, "tron") /\ RejectedInput(t) => NeverAwaited(t)
        /\ OnlyPayToInvalid(t) =>
              /\ NeverAwaited(t)
              /\ cpc[t] = "returned"
              /\ cret[t] = Raised(ValueErrorOf("Invalid payTo address",
                                               InvalidAddress))

InvalidPayToRejected ==
    \E t \in DOMAIN cpc :
        /\ OnlyPayToInvalid(t)
        /\ RejectedInput(t)
        /\ cret[t].exc.message = "Invalid payTo address"
        /\ NeverAwaited(t)

\* the methods of the signer protocols
SignerMethods ==
    {"sign_typed_data", "get_seqno", "sign_message", "get_block_info",
     "sign_transaction"}
SignerInvoked(t) ==
    \E i \in 1..Len(csigned[t]) : csigned[t][i].method \in SignerMethods
RequiredFields == {"asset", "payTo", "amount"}
LacksRequiredField(t) ==
    /\ ccall[t] # NoCall
    /\ ccall[t].family \in {"evm", "ton", "tron"}
    /\ ~(RequiredFields \subseteq DOMAIN ccall[t].requirements)

\* C18: create_payment_payload of the EVM, TON and TRON client schemes,
\* called with requirements that lack asset, payTo or amount, raises an
\* error and never invokes a method of the signer.
MissingFieldFailsFast ==
    \A t \in DOMAIN cpc :
        LacksRequiredField(t) =>
            /\ ~SignerInvoked(t)
            /\ cpc[t] = "returned" => Rejected(t)

\* the call has returned a payload
Paid(t) == cpc[t] = "returned" /\ cret[t].kind = "return"
\* the identifier of the payment: the EVM nonce, the TON query id
Identifier(t) ==
    IF ccall[t].family = "evm"
    THEN cret[t].value.payload.authorization.nonce
    ELSE cret[t].value.payload.authorization.queryId
SamePayer(t, u) ==
    /\ ccall[t].family = ccall[u].family
    /\ ccall[t].family \in {"evm", "ton"}
    /\ ccall[t].signer = ccall[u].signer

\* C19: two payments created concurrently by the same payer with the same
\* client scheme never carry the same nonce or query id, whatever the
\* clock read when they were created.
IdentifiersNeverShared ==
    \A t, u \in DOMAIN cpc :
        t # u /\ Paid(t) /\ Paid(u) /\ SamePayer(t, u) =>
            Identifier(t) # Identifier(u)

\* the payload of the SVM scheme reports an authorization
Authorized(t) ==
    /\ CalledFamily(t, "svm")
    /\ Paid(t)
    /\ cret[t].value.payload.authorization # NoneValue
\* the TransferChecked instruction of the transaction in the payload
SignedTransfer(t) ==
    parse_transfer_checked_instruction(cret[t].value.payload.transaction).details

\* C20: in the payload of the SVM client scheme the authorization's from,
\* to, mint and amount are those of the TransferChecked instruction of the
\* signed transaction: its authority (or source account), its destination,
\* its mint and its amount.
AuthorizationMatchesSigned ==
    \A t \in DOMAIN cpc :
        Authorized(t) =>
            LET authorization == cret[t].value.payload.authorization.dict
                transfer == SignedTransfer(t)
            IN  /\ authorization.from \in {transfer.authority, transfer.source}
                /\ authorization.to = transfer.destination
                /\ authorization.mint = transfer.mint
                /\ authorization.amount = PyStr(transfer.amount)

(***************************************************************************)
(* Further properties of the facilitator scheme.                           *)
(***************************************************************************)
\* how often the call in flight has awaited a method of the signer
TimesAwaited(method) ==
    Cardinality({i \in 1..Len(calls) : calls[i].method = method})

\* C22: one call to settle() awaits send_transaction at most once, whatever
\* the broadcast and the confirmation do: nothing is sent a second time.
SendsAtMostOnce == op = "settle" => TimesAwaited("send_transaction") <= 1

SendRaisedAndSettleGaveUp ==
    /\ op = "settle"
    /\ HasReturned
    /\ ~result.value.success
    /\ TimesAwaited("send_transaction") = 1
    /\ LastOutcome.kind = "raise"
    /\ calls[Len(calls)].method = "send_transaction"

\* the token account of an owner, as the model's account keys name it
TokenAccountOf(owner) == owner \o "ATA"
GivenTransfer == parse_transfer_checked_instruction(GivenTransaction).details

\* C25: verify() returns isValid=true only if the TransferChecked
\* instruction moves the funds to the recipient named by requirements.payTo
\* (the recipient itself or its token account).
ValidOnlyIfPaidToRecipient ==
    VerifyReturned /\ result.value.isValid =>
        GivenTransfer.destination \in
            {Get(given.requirements, "payTo", ""),
             TokenAccountOf(Get(given.requirements, "payTo", ""))}

\* C26: the payer verify() reports, once it has parsed a transfer, is the
\* authority of the transaction's TransferChecked instruction, the account
\* the self-dealing check compares with the managed addresses.
PayerIsTransferAuthority ==
    /\ VerifyReturned
    /\ result.value.payer # ""
    /\ parse_transfer_checked_instruction(GivenTransaction).found
    => result.value.payer = GivenTransfer.authority

(***************************************************************************)
(* Further properties of the registry.                                     *)
(***************************************************************************)
\* no call on the registry is under way
Quiet == \A t \in DOMAIN tpc : tpc[t] \in {"idle", "returned"}
NoPatternTwice ==
    \A v \in DOMAIN patterns :
        \A i, j \in 1..Len(patterns[v]) :
            i # j => patterns[v][i] # patterns[v][j]

\* C30: after any sequence of register() and clear() calls the pattern
\* list of each protocol version holds exactly the keys of that version's
\* scheme map that contain a wildcard, each of them once.
PatternsAreWildcardKeys == Quiet => Tracked /\ NoPatternTwice

WildcardRegisteredTwice ==
    /\ Quiet
    /\ \E i, j \in 1..Len(history) :
          /\ i # j
          /\ history[i].network = history[j].network
          /\ history[i].version = history[j].version
          /\ Contains(history[i].network, Star)
          /\ Len(patterns[history[i].version]) = 1

(***************************************************************************)
(* The global registries: get_client_registry, get_server_registry,        *)
(* get_facilitator_registry and reset_global_registries.  The getters take *)
(* no lock, so a thread may be preempted between the test of the global,   *)
(* the assignment to it and the return.                                    *)
(***************************************************************************)
\* registry objects constructed in one behaviour
MaxCreated == 3

\* the n-th registry object, made by ClientSchemeRegistry() and the like
RegistryObject(kind, n) == [tag |-> "registry", kind |-> kind, id |-> n]

\* get_client_registry(), line 448: the call begins
GetRegistryCall(t, kind) ==
    /\ tpc[t] = "idle"
    /\ tcall' = [tcall EXCEPT ![t] = [op |-> "get_registry", kind |-> kind]]
    /\ tpc' = [tpc EXCEPT ![t] = "global_check"]
    /\ UNCHANGED <<tret, global_vars>>

\* line 451: if _client_registry is None
GlobalCheck(t) ==
    /\ tpc[t] = "global_check"
    /\ tpc' = [tpc EXCEPT ![t] =
                 IF global_registries[tcall[t].kind] = NoneValue
                 THEN "global_create" ELSE "global_return"]
    /\ UNCHANGED <<tcall, tret, global_vars>>

\* line 452: _client_registry = ClientSchemeRegistry()
GlobalCreate(t) ==
    /\ tpc[t] = "global_create"
    /\ created < MaxCreated
    /\ created' = created + 1
    /\ global_registries' =
          [global_registries EXCEPT ![tcall[t].kind] =
              RegistryObject(tcall[t].kind, created + 1)]
    /\ tpc' = [tpc EXCEPT ![t] = "global_return"]
    /\ UNCHANGED <<tcall, tret, handed>>

\* line 453: return _client_registry
GlobalReturn(t) ==
    /\ tpc[t] = "global_return"
    /\ Returns(t, global_registries[tcall[t].kind])
    /\ handed' = [handed EXCEPT ![tcall[t].kind] =
                     @ \cup {global_registries[tcall[t].kind]}]
    /\ UNCHANGED <<tcall, global_registries, created>>

\* reset_global_registries(), lines 472-477, called while no getter runs
ResetGlobals(t) ==
    /\ tpc[t] = "idle"
    /\ \A u \in DOMAIN tpc : tpc[u] \in {"idle", "returned"}
    /\ \E k \in GlobalKinds : global_registries[k] # NoneValue
    /\ global_registries' = [k \in GlobalKinds |-> NoneValue]
    /\ handed' = [k \in GlobalKinds |-> {}]
    /\ UNCHANGED <<tpc, tcall, tret, created>>

GetRegistry(t) == \E kind \in GlobalKinds : GetRegistryCall(t, kind)
GlobalDone(t) == Done(t) /\ UNCHANGED global_vars

\* what the calls on the globals leave alone
globals_rest == <<vars, client_vars, schemes, patterns, lock, history, header_vars, middleware_vars, wait_vars>>

GlobalsNext ==
    \E t \in Threads :
        \/ GetRegistry(t) /\ UNCHANGED globals_rest
        \/ GlobalCheck(t) /\ UNCHANGED globals_rest
        \/ GlobalCreate(t) /\ UNCHANGED globals_rest
        \/ GlobalReturn(t) /\ UNCHANGED globals_rest
        \/ ResetGlobals(t) /\ UNCHANGED globals_rest
        \/ GlobalDone(t) /\ UNCHANGED globals_rest

GlobalsSpecInit == Init /\ RegistryInit(Threads) /\ ClientInit({}) /\ MoreInit
GlobalsSpec == GlobalsSpecInit /\ [][GlobalsNext]_all_vars

\* C28: between two resets every call of a getter returns the same
\* registry object, also when the first calls run concurrently.
OneRegistryBetweenResets ==
    \A k \in GlobalKinds : Cardinality(handed[k]) <= 1

(***************************************************************************)
(* encoding.py: the header envelope.  A text is a sequence of code points, *)
(* a byte string a sequence of numbers below 256.  base64, UTF-8 and json  *)
(* are modelled by what the standard library does with the text.           *)
(***************************************************************************)
\* the printable ASCII characters, from code point 32 (the backtick, 96,
\* is not written as a character)
Ascii == <<" ", "!", "\"", "#", "$", "%", "&", "'", "(", ")", "*", "+", ",", "-", ".", "/", "0", "1", "2", "3", "4", "5", "6", "7", "8", "9", ":", ";", "<", "=", ">", "?", "@", "A", "B", "C", "D", "E", "F", "G", "H", "I", "J", "K", "L", "M", "N", "O", "P", "Q", "R", "S", "T", "U", "V", "W", "X", "Y", "Z", "[", "\\", "]", "^", "_", "<backtick>", "a", "b", "c", "d", "e", "f", "g", "h", "i", "j", "k", "l", "m", "n", "o", "p", "q", "r", "s", "t", "u", "v", "w", "x", "y", "z", "{", "|", "}", "~">>
\* ord(c)
Ord(c) == 31 + CHOOSE i \in 1..Len(Ascii) : Ascii[i] = c
\* the text of a tuple of characters
Text(chars) == [i \in 1..Len(chars) |-> Ord(chars[i])]

\* the base64 alphabet: A-Z, a-z, 0-9, + and /
B64Char(v) ==
    IF v < 26 THEN 65 + v
    ELSE IF v < 52 THEN 97 + (v - 26)
    ELSE IF v < 62 THEN 48 + (v - 52)
    ELSE IF v = 62 THEN 43 ELSE 47
B64Pad == Ord("=")
IsB64Char(c) == \E v \in 0..63 : B64Char(v) = c
\* table_a2b_base64 of binascii
B64Value(c) == CHOOSE v \in 0..63 : B64Char(v) = c

\* the i-th byte of data, or 0 past its end
ByteAt(data, i) == IF i <= Len(data) THEN data[i] ELSE 0
\* the k-th character (0..3) of the quad that encodes the bytes b1, b2, b3
QuadChar(k, b1, b2, b3) ==
    IF k = 0 THEN B64Char(b1 \div 4)
    ELSE IF k = 1 THEN B64Char((b1 % 4) * 16 + (b2 \div 16))
    ELSE IF k = 2 THEN B64Char((b2 % 16) * 4 + (b3 \div 64))
    ELSE B64Char(b3 % 64)

\* base64.b64encode(data): every three bytes become four characters, and a
\* last group of one or two bytes is padded with "="
b64encode(data) ==
    [j \in 1..(4 * ((Len(data) + 2) \div 3)) |->
        LET q == (j - 1) \div 4
            k == (j - 1) % 4
        IN  IF 3 * q + k > Len(data) THEN B64Pad
            ELSE QuadChar(k, ByteAt(data, 3 * q + 1), ByteAt(data, 3 * q + 2), ByteAt(data, 3 * q + 3))]

BinasciiError == [type |-> "binascii.Error", message |-> "Incorrect padding"]

\* quad_pos when the loop of a2b_base64 reaches data[i]: the alphabet
\* characters seen so far, modulo 4
QuadPos(data, i) == Cardinality({k \in 1..(i - 1) : IsB64Char(data[k])}) % 4
\* pads after data[i] is read: the "=" since the last alphabet character
PadsAt(data, i) ==
    Cardinality({k \in 1..i : data[k] = B64Pad /\ \A l \in (k + 1)..i : ~IsB64Char(data[l])})
\* the loop leaves at a "=" that completes the padding of the open quad
PadEnds(data, i) ==
    /\ data[i] = B64Pad
    /\ QuadPos(data, i) >= 2
    /\ QuadPos(data, i) + PadsAt(data, i) >= 4
\* the j-th byte (from 1) that the alphabet characters `chars` stand for
DecodedByte(chars, j) ==
    LET q == 4 * ((j - 1) \div 3)
        k == (j - 1) % 3
    IN  IF k = 0 THEN B64Value(chars[q + 1]) * 4 + (B64Value(chars[q + 2]) \div 16)
        ELSE IF k = 1 THEN (B64Value(chars[q + 2]) % 16) * 16 + (B64Value(chars[q + 3]) \div 4)
        ELSE (B64Value(chars[q + 3]) % 4) * 64 + B64Value(chars[q + 4])

\* the bytes of the alphabet characters `chars`: three for every whole
\* quad, and one or two for a last quad of two or three characters
DecodedBytes(chars) ==
    [j \in 1..(3 * (Len(chars) \div 4) + (IF Len(chars) % 4 = 0 THEN 0 ELSE (Len(chars) % 4) - 1)) |-> DecodedByte(chars, j)]
\* the first index of `ends`
FirstOf(ends) == CHOOSE i \in ends : \A k \in ends : i <= k
\* the input ended without a pad sequence that completes a quad
A2bToTheEnd(chars) ==
    IF Len(chars) % 4 # 0 THEN Raised(BinasciiError) ELSE Returned(DecodedBytes(chars))
A2bUpTo(data, ends) ==
    IF ends = {} THEN A2bToTheEnd(SelectSeq(data, IsB64Char))
    ELSE Returned(DecodedBytes(SelectSeq(SubSeq(data, 1, FirstOf(ends) - 1), IsB64Char)))

\* binascii.a2b_base64(data), not strict: characters outside the alphabet
\* are skipped, a completed pad sequence ends the input, and an incomplete
\* last quad without it is an error
a2b_base64(data) == A2bUpTo(data, {i \in 1..Len(data) : PadEnds(data, i)})

\* base64.b64decode(data)
b64decode(data) == a2b_base64(data)

\* the UTF-8 bytes of one code point
Utf8Bytes(c) ==
    IF c < 128 THEN <<c>>
    ELSE IF c < 2048 THEN <<192 + (c \div 64), 128 + (c % 64)>>
    ELSE IF c < 65536 THEN <<224 + (c \div 4096), 128 + ((c \div 64) % 64), 128 + (c % 64)>>
    ELSE <<240 + (c \div 262144), 128 + ((c \div 4096) % 64), 128 + ((c \div 64) % 64), 128 + (c % 64)>>

\* str.encode("utf-8")
RECURSIVE utf8_encode(_)
utf8_encode(text) ==
    IF text = <<>> THEN <<>>
    ELSE IF Len(text) = 1 THEN Utf8Bytes(text[1])
    ELSE utf8_encode(SubSeq(text, 1, Len(text) \div 2)) \o utf8_encode(SubSeq(text, (Len(text) \div 2) + 1, Len(text)))

UnicodeDecodeError == [type |-> "UnicodeDecodeError", message |-> "utf-8 codec cannot decode"]
Continuation(data, i) == i <= Len(data) /\ data[i] \in 128..191
\* how many bytes the sequence that starts with the byte b has
SequenceLength(b) == IF b < 192 THEN 1 ELSE IF b < 224 THEN 2 ELSE IF b < 240 THEN 3 ELSE 4
\* data[i] starts a well-formed sequence: no overlong form, no surrogate,
\* nothing above U+10FFFF, every continuation byte present
WellFormedSequence(data, i) ==
    /\ data[i] < 128 \/ data[i] \in 194..244
    /\ \A k \in 1..(SequenceLength(data[i]) - 1) : Continuation(data, i + k)
    /\ data[i] = 224 => data[i + 1] >= 160
    /\ data[i] = 237 => data[i + 1] <= 159
    /\ data[i] = 240 => data[i + 1] >= 144
    /\ data[i] = 244 => data[i + 1] <= 143
    /\ ~Continuation(data, i + SequenceLength(data[i]))
\* the code point of the sequence that starts at data[i]
CodePoint(data, i) ==
    IF data[i] < 128 THEN data[i]
    ELSE IF data[i] < 224 THEN (data[i] - 192) * 64 + (data[i + 1] - 128)
    ELSE IF data[i] < 240 THEN (data[i] - 224) * 4096 + (data[i + 1] - 128) * 64 + (data[i + 2] - 128)
    ELSE (data[i] - 240) * 262144 + (data[i + 1] - 128) * 4096 + (data[i + 2] - 128) * 64 + (data[i + 3] - 128)

\* the code points of the sequences that start at the indices `starts`
Utf8Decoded(data, starts) ==
    IF /\ ~Continuation(data, 1)
       /\ \A k \in 1..Len(starts) : WellFormedSequence(data, starts[k])
    THEN Returned([k \in 1..Len(starts) |-> CodePoint(data, starts[k])])
    ELSE Raised(UnicodeDecodeError)

\* bytes.decode("utf-8"): strict, every byte belongs to a well-formed
\* sequence
utf8_decode(data) ==
    Utf8Decoded(data, SelectSeq([i \in 1..Len(data) |-> i], LAMBDA i : data[i] \notin 128..191))

(***************************************************************************)
(* The Python objects json handles: None, bool, int, float (kept as the    *)
(* text of the number), str, list, and dict as the sequence of its         *)
(* <<key, value>> pairs in insertion order.                                *)
(***************************************************************************)
PyBool(b) == [tag |-> "bool", v |-> b]
PyNumber(n) == [tag |-> "int", v |-> n]
PyFloat(lexeme) == [tag |-> "float", v |-> lexeme]
PyString(text) == [tag |-> "str", v |-> text]
PyList(items) == [tag |-> "list", v |-> items]
PyDict(pairs) == [tag |-> "dict", v |-> pairs]

Quote == Ord("\"")
Backslash == Ord("\\")
HexDigits == <<"0", "1", "2", "3", "4", "5", "6", "7", "8", "9", "a", "b", "c", "d", "e", "f">>
\* '{0:04x}'.format(n)
Hex4(n) == <<Ord(HexDigits[(n \div 4096) + 1]), Ord(HexDigits[((n \div 256) % 16) + 1]), Ord(HexDigits[((n \div 16) % 16) + 1]), Ord(HexDigits[(n % 16) + 1])>>
EscapeU(n) == <<Backslash, Ord("u")>> \o Hex4(n)

\* ESCAPE_DCT and the replace function of
\* json.encoder.py_encode_basestring_ascii: 34 is the quote, 92 the
\* backslash, 8 9 10 12 13 are \b \t \n \f \r
EscapeAscii(c) ==
    IF c = 34 THEN <<92, 34>>
    ELSE IF c = 92 THEN <<92, 92>>
    ELSE IF c = 10 THEN <<92, 110>>
    ELSE IF c = 13 THEN <<92, 114>>
    ELSE IF c = 9 THEN <<92, 116>>
    ELSE IF c = 8 THEN <<92, 98>>
    ELSE IF c = 12 THEN <<92, 102>>
    ELSE IF c \in 32..126 THEN <<c>>
    ELSE IF c < 65536 THEN EscapeU(c)
    ELSE EscapeU(55296 + (((c - 65536) \div 1024) % 1024)) \o EscapeU(56320 + ((c - 65536) % 1024))

RECURSIVE EscapeAll(_)
EscapeAll(text) ==
    IF text = <<>> THEN <<>> ELSE EscapeAscii(text[1]) \o EscapeAll(Tail(text))

\* json.encoder.encode_basestring_ascii(s)
encode_basestring_ascii(text) == <<Quote>> \o EscapeAll(text) \o <<Quote>>

\* the separators ', ' and ': ' and the words of json
CommaSpace == <<44, 32>>
ColonSpace == <<58, 32>>
WordNull == <<110, 117, 108, 108>>
WordTrue == <<116, 114, 117, 101>>
WordFalse == <<102, 97, 108, 115, 101>>
WordNaN == <<78, 97, 78>>
WordInfinity == <<73, 110, 102, 105, 110, 105, 116, 121>>

\* json.dumps(obj) with the default separators
RECURSIVE json_dumps(_)
RECURSIVE DumpItems(_, _)
RECURSIVE DumpPairs(_, _)
DumpItems(items, i) ==
    IF i > Len(items) THEN <<>>
    ELSE (IF i > 1 THEN CommaSpace ELSE <<>>) \o json_dumps(items[i]) \o DumpItems(items, i + 1)
DumpPairs(pairs, i) ==
    IF i > Len(pairs) THEN <<>>
    ELSE (IF i > 1 THEN CommaSpace ELSE <<>>) \o encode_basestring_ascii(pairs[i][1]) \o ColonSpace \o json_dumps(pairs[i][2]) \o DumpPairs(pairs, i + 1)
json_dumps(obj) ==
    IF obj.tag = "None" THEN WordNull
    ELSE IF obj.tag = "bool" THEN (IF obj.v THEN WordTrue ELSE WordFalse)
    ELSE IF obj.tag = "int" THEN Text(PyStrSigned(obj.v))
    ELSE IF obj.tag = "float" THEN obj.v
    ELSE IF obj.tag = "str" THEN encode_basestring_ascii(obj.v)
    ELSE IF obj.tag = "list" THEN <<91>> \o DumpItems(obj.v, 1) \o <<93>>
    ELSE <<123>> \o DumpPairs(obj.v, 1) \o <<125>>

\* s[i:i+1], with -1 for the empty string past the end
At(s, i) == IF i \in 1..Len(s) THEN s[i] ELSE 0 - 1
\* s[i:i+len(word)] == word
WordAt(s, i, word) == \A k \in 1..Len(word) : At(s, i + k - 1) = word[k]
IsDigit(c) == c \in 48..57
IsHex(c) == c \in 48..57 \/ c \in 65..70 \/ c \in 97..102
HexValue(c) == IF c \in 48..57 THEN c - 48 ELSE IF c \in 65..70 THEN c - 55 ELSE c - 87
HexValue4(s, i) == HexValue(s[i]) * 4096 + HexValue(s[i + 1]) * 256 + HexValue(s[i + 2]) * 16 + HexValue(s[i + 3])
IsHex4(s, i) == \A k \in 0..3 : IsHex(At(s, i + k))

\* WHITESPACE.match(s, i).end(): past spaces, tabs, newlines, returns
RECURSIVE SkipWhitespace(_, _)
SkipWhitespace(s, i) ==
    IF At(s, i) \in {32, 9, 10, 13} THEN SkipWhitespace(s, i + 1) ELSE i

RECURSIVE SkipDigits(_, _)
SkipDigits(s, i) == IF IsDigit(At(s, i)) THEN SkipDigits(s, i + 1) ELSE i

RECURSIVE DecimalValue(_, _, _)
DecimalValue(s, i, j) ==
    IF j < i THEN 0 ELSE 10 * DecimalValue(s, i, j - 1) + (s[j] - 48)

\* a successful scan: the value and the index after it
Scanned(value, end) == [ok |-> TRUE, value |-> value, end |-> end]
\* StopIteration or JSONDecodeError inside the scanner
NotScanned == [ok |-> FALSE]

\* NUMBER_RE (-?(?:0|[1-9]\d*))(\.\d+)?([eE][-+]?\d+)? at index i; 45 is
\* "-", 43 "+", 46 ".", 48 "0", 69 "E", 101 "e"
IntegerEnd(s, first) == IF At(s, first) = 48 THEN first + 1 ELSE SkipDigits(s, first)
FractionEnd(s, int_end) ==
    IF At(s, int_end) = 46 /\ IsDigit(At(s, int_end + 1)) THEN SkipDigits(s, int_end + 1) ELSE int_end
ExponentDigits(s, frac_end) == IF At(s, frac_end + 1) \in {43, 45} THEN frac_end + 2 ELSE frac_end + 1
ExponentEnd(s, frac_end) ==
    IF At(s, frac_end) \in {69, 101} /\ IsDigit(At(s, ExponentDigits(s, frac_end)))
    THEN SkipDigits(s, ExponentDigits(s, frac_end)) ELSE frac_end
NumberScanned(s, i, first, int_end, exp_end) ==
    IF exp_end = int_end
    THEN Scanned(PyNumber((IF first > i THEN 0 - 1 ELSE 1) * DecimalValue(s, first, int_end - 1)), int_end)
    ELSE Scanned(PyFloat(SubSeq(s, i, exp_end - 1)), exp_end)
NumberFrom(s, i, first, int_end) ==
    NumberScanned(s, i, first, int_end, ExponentEnd(s, FractionEnd(s, int_end)))
MatchNumberAt(s, i, first) ==
    IF ~IsDigit(At(s, first)) THEN NotScanned ELSE NumberFrom(s, i, first, IntegerEnd(s, first))
MatchNumber(s, i) == MatchNumberAt(s, i, IF At(s, i) = 45 THEN i + 1 ELSE i)

\* BACKSLASH of json.decoder: the one-character escapes b f n r t, and
\* the quote, the backslash and the slash that stand for themselves
Unescaped(c) ==
    IF c = 98 THEN 8
    ELSE IF c = 102 THEN 12
    ELSE IF c = 110 THEN 10
    ELSE IF c = 114 THEN 13
    ELSE IF c = 116 THEN 9
    ELSE c

\* a \uXXXX escape at s[i] is the high half of a surrogate pair whose low
\* half follows
SurrogatePairAt(s, i) ==
    /\ HexValue4(s, i + 2) \in 55296..56319
    /\ At(s, i + 6) = 92
    /\ At(s, i + 7) = 117
    /\ IsHex4(s, i + 8)
    /\ HexValue4(s, i + 8) \in 56320..57343

\* json.decoder.scanstring(s, i, strict=True), i after the opening quote
RECURSIVE scanstring(_, _, _)
scanstring(s, i, chars) ==
    IF At(s, i) = 0 - 1 THEN NotScanned
    ELSE IF At(s, i) = 34 THEN Scanned(PyString(chars), i + 1)
    ELSE IF At(s, i) < 32 THEN NotScanned
    ELSE IF At(s, i) # 92 THEN scanstring(s, i + 1, Append(chars, At(s, i)))
    ELSE IF At(s, i + 1) \in {34, 92, 47, 98, 102, 110, 114, 116}
    THEN scanstring(s, i + 2, Append(chars, Unescaped(At(s, i + 1))))
    ELSE IF At(s, i + 1) # 117 \/ ~IsHex4(s, i + 2) THEN NotScanned
    ELSE IF SurrogatePairAt(s, i)
    THEN scanstring(s, i + 12, Append(chars, 65536 + (HexValue4(s, i + 2) - 55296) * 1024 + (HexValue4(s, i + 8) - 56320)))
    ELSE scanstring(s, i + 6, Append(chars, HexValue4(s, i + 2)))

\* dict(pairs): a repeated key keeps its place and takes the last value
DictSet(pairs, key, value) ==
    IF \E k \in 1..Len(pairs) : pairs[k][1] = key
    THEN [k \in 1..Len(pairs) |-> IF pairs[k][1] = key THEN <<key, value>> ELSE pairs[k]]
    ELSE Append(pairs, <<key, value>>)

\* json.scanner.py_make_scanner._scan_once, json.decoder.JSONObject and
\* json.decoder.JSONArray; 123 125 are the braces, 91 93 the brackets, 58
\* the colon, 44 the comma
RECURSIVE scan_once(_, _)
RECURSIVE ObjectMembers(_, _, _)
RECURSIVE ArrayItems(_, _, _)
\* after a member: "}" ends the object, "," brings the next key
AfterMember(s, next, members) ==
    IF At(s, next) = 125 THEN Scanned(PyDict(members), next + 1)
    ELSE IF At(s, next) # 44 THEN NotScanned
    ELSE ObjectMembers(s, SkipWhitespace(s, next + 1), members)
AfterValue(s, key, value, pairs) ==
    IF ~value.ok THEN NotScanned
    ELSE AfterMember(s, SkipWhitespace(s, value.end), DictSet(pairs, key.value.v, value.value))
AfterColon(s, key, colon, pairs) ==
    IF At(s, colon) # 58 THEN NotScanned
    ELSE AfterValue(s, key, scan_once(s, SkipWhitespace(s, colon + 1)), pairs)
AfterKey(s, key, pairs) ==
    IF ~key.ok THEN NotScanned ELSE AfterColon(s, key, SkipWhitespace(s, key.end), pairs)
\* from the first character of a key, which must be a quote
ObjectMembers(s, i, pairs) ==
    IF At(s, i) # 34 THEN NotScanned ELSE AfterKey(s, scanstring(s, i + 1, <<>>), pairs)
\* after an item: "]" ends the array, "," brings the next item
AfterItem(s, next, items) ==
    IF At(s, next) = 93 THEN Scanned(PyList(items), next + 1)
    ELSE IF At(s, next) # 44 THEN NotScanned
    ELSE ArrayItems(s, SkipWhitespace(s, next + 1), items)
ItemScanned(s, value, items) ==
    IF ~value.ok THEN NotScanned
    ELSE AfterItem(s, SkipWhitespace(s, value.end), Append(items, value.value))
\* from the first character of an item
ArrayItems(s, i, items) == ItemScanned(s, scan_once(s, i), items)
\* after "{" and the whitespace that follows it
JSONObject(s, i) ==
    IF At(s, i) = 125 THEN Scanned(PyDict(<<>>), i + 1) ELSE ObjectMembers(s, i, <<>>)
\* after "[" and the whitespace that follows it
JSONArray(s, i) ==
    IF At(s, i) = 93 THEN Scanned(PyList(<<>>), i + 1) ELSE ArrayItems(s, i, <<>>)
\* a number, or NaN, Infinity, -Infinity, or nothing
NumberOrConstant(s, i, number) ==
    IF number.ok THEN number
    ELSE IF WordAt(s, i, WordNaN) THEN Scanned(PyFloat(WordNaN), i + 3)
    ELSE IF WordAt(s, i, WordInfinity) THEN Scanned(PyFloat(WordInfinity), i + 8)
    ELSE IF At(s, i) = 45 /\ WordAt(s, i + 1, WordInfinity) THEN Scanned(PyFloat(<<45>> \o WordInfinity), i + 9)
    ELSE NotScanned
scan_once(s, i) ==
    IF At(s, i) = 34 THEN scanstring(s, i + 1, <<>>)
    ELSE IF At(s, i) = 123 THEN JSONObject(s, SkipWhitespace(s, i + 1))
    ELSE IF At(s, i) = 91 THEN JSONArray(s, SkipWhitespace(s, i + 1))
    ELSE IF WordAt(s, i, WordNull) THEN Scanned(NoneValue, i + 4)
    ELSE IF WordAt(s, i, WordTrue) THEN Scanned(PyBool(TRUE), i + 4)
    ELSE IF WordAt(s, i, WordFalse) THEN Scanned(PyBool(FALSE), i + 5)
    ELSE NumberOrConstant(s, i, MatchNumber(s, i))

JSONDecodeError == [type |-> "json.JSONDecodeError", message |-> "Expecting value"]

\* the value scanned, unless something other than whitespace follows it
LoadsScanned(s, scanned) ==
    IF ~scanned.ok THEN Raised(JSONDecodeError)
    ELSE IF SkipWhitespace(s, scanned.end) # Len(s) + 1 THEN Raised(JSONDecodeError)
    ELSE Returned(scanned.value)

\* json.loads(s) for a str: the BOM is refused, one value is scanned
\* between whitespace, and anything after it is "Extra data"
json_loads(s) ==
    IF At(s, 1) = 65279 THEN Raised(JSONDecodeError)
    ELSE LoadsScanned(s, scan_once(s, SkipWhitespace(s, 1)))

(***************************************************************************)
(* encoding.py, lines 39-210                                               *)
(***************************************************************************)
\* [A-Za-z0-9+/]*={0,2} over the whole of `body`
Base64Body(body) ==
    \E pad \in 0..2 :
        /\ pad <= Len(body)
        /\ \A i \in 1..Len(body) :
              IF i > Len(body) - pad THEN body[i] = B64Pad ELSE IsB64Char(body[i])

\* BASE64_REGEX.match(data), line 40: `$` matches at the end of the string
\* and also before a newline that ends it
BASE64_REGEX(data) ==
    \/ Base64Body(data)
    \/ data # <<>> /\ data[Len(data)] = 10 /\ Base64Body(SubSeq(data, 1, Len(data) - 1))

\* an encoder that leaves the "=" padding out
safe_base64_encode_unpadded(data) ==
    SelectSeq(utf8_decode(b64encode(utf8_encode(data))).value, LAMBDA c : c # B64Pad)

\* lines 43-54
safe_base64_encode(data) == utf8_decode(b64encode(utf8_encode(data))).value

\* lines 57-66: the text, or the exception of b64decode or of decode("utf-8")
DecodeUtf8(decoded) == IF decoded.kind = "raise" THEN decoded ELSE utf8_decode(decoded.value)
safe_base64_decode(data) == DecodeUtf8(b64decode(data))

\* lines 69-83
is_valid_base64(data) ==
    IF data = <<>> THEN FALSE
    ELSE IF Len(data) % 4 # 0 THEN FALSE
    ELSE BASE64_REGEX(data)

\* an instance of a pydantic model: its fields in declaration order
Model(class, fields) == [tag |-> "model", class |-> class, v |-> fields]

\* pydantic.alias_generators.to_camel for a snake_case field name
RECURSIVE to_camel(_)
to_camel(name) ==
    IF name = <<>> THEN <<>>
    ELSE IF name[1] = Ord("_") /\ Len(name) > 1
    THEN <<IF name[2] \in 97..122 THEN name[2] - 32 ELSE name[2]>> \o to_camel(SubSeq(name, 3, Len(name)))
    ELSE <<name[1]>> \o to_camel(Tail(name))

\* model.model_dump(by_alias=True, exclude_none=True)
RECURSIVE model_dump(_)
RECURSIVE DumpFields(_, _)
DumpFields(fields, i) ==
    IF i > Len(fields) THEN <<>>
    ELSE (IF fields[i][2] = NoneValue THEN <<>>
          ELSE <<<<to_camel(fields[i][1]), model_dump(fields[i][2])>>>>) \o DumpFields(fields, i + 1)
model_dump(obj) ==
    IF obj.tag = "model" THEN PyDict(DumpFields(obj.v, 1))
    ELSE IF obj.tag = "list" THEN PyList([i \in 1..Len(obj.v) |-> model_dump(obj.v[i])])
    ELSE obj

\* `key in data`
HasKey(data, key) == \E i \in 1..Len(data.v) : data.v[i][1] = key
\* the truth value of an optional dict
Truthy(obj) == obj.tag = "dict" /\ obj.v # <<>>

\* lines 102-105, 141-144, 181-184: hasattr(x, "model_dump")
DataOf(obj) == IF obj.tag = "model" THEN model_dump(obj) ELSE obj

\* lines 91-106
encode_payment_signature_header(payment_payload) ==
    safe_base64_encode(json_dumps(DataOf(payment_payload)))

\* lines 132-145
encode_payment_required_header(payment_required) ==
    safe_base64_encode(json_dumps(DataOf(payment_required)))

\* lines 181-188: the data that is encoded
ResponseData(payment_response, reqs) ==
    IF Truthy(reqs) /\ ~HasKey(DataOf(payment_response), Text(<<"r", "e", "q", "u", "i", "r", "e", "m", "e", "n", "t", "s">>))
    THEN PyDict(Append(DataOf(payment_response).v, <<Text(<<"r", "e", "q", "u", "i", "r", "e", "m", "e", "n", "t", "s">>), reqs>>))
    ELSE DataOf(payment_response)

\* lines 168-190
encode_payment_response_header(payment_response, reqs) ==
    safe_base64_encode(json_dumps(ResponseData(payment_response, reqs)))

\* lines 124-129, 160-165, 205-210: the body the three decoders share
LoadedOr(name, loaded) ==
    IF loaded.kind = "raise"
    THEN Raised(ValueError("Invalid " \o name \o " header: invalid JSON"))
    ELSE loaded
LoadText(name, text) ==
    IF text.kind = "raise" THEN text ELSE LoadedOr(name, json_loads(text.value))
DecodeHeader(name, header_value) ==
    IF ~is_valid_base64(header_value)
    THEN Raised(ValueError("Invalid " \o name \o " header: not valid base64"))
    ELSE LoadText(name, safe_base64_decode(header_value))

\* lines 109-129
decode_payment_signature_header(header_value) == DecodeHeader("payment signature", header_value)
\* lines 148-165
decode_payment_required_header(header_value) == DecodeHeader("payment required", header_value)
\* lines 193-210
decode_payment_response_header(header_value) == DecodeHeader("payment response", header_value)

HeaderKinds == {"payment_signature", "payment_required", "payment_response"}
Encoded(kind, obj, reqs) ==
    IF kind = "payment_signature" THEN encode_payment_signature_header(obj)
    ELSE IF kind = "payment_required" THEN encode_payment_required_header(obj)
    ELSE encode_payment_response_header(obj, reqs)
Decoded(kind, header_value) ==
    IF kind = "payment_signature" THEN decode_payment_signature_header(header_value)
    ELSE IF kind = "payment_required" THEN decode_payment_required_header(header_value)
    ELSE decode_payment_response_header(header_value)

\* header strings offered to the decoders: base64 of "{}" is e30=, of "{"
\* ew==, of the byte 0xff /w==; "!" is outside the alphabet; 10 is "\n"
MaxHeaderLen == 4
HeaderAlphabet == {Ord("e"), Ord("3"), Ord("0"), Ord("w"), Ord("/"), Ord("="), Ord("!"), 10}
\* the header strings of n characters
HeaderValues(n) == [1..n -> HeaderAlphabet]

TextExact == Text(<<"e", "x", "a", "c", "t">>)
TextScheme == Text(<<"s", "c", "h", "e", "m", "e">>)
TextSignature == Text(<<"s", "i", "g", "n", "a", "t", "u", "r", "e">>)
TextPayload == Text(<<"p", "a", "y", "l", "o", "a", "d">>)
TextSuccess == Text(<<"s", "u", "c", "c", "e", "s", "s">>)
TextTransaction == Text(<<"t", "r", "a", "n", "s", "a", "c", "t", "i", "o", "n">>)
TextRequirements == Text(<<"r", "e", "q", "u", "i", "r", "e", "m", "e", "n", "t", "s">>)
TextError == Text(<<"e", "r", "r", "o", "r">>)
TextExtra == Text(<<"e", "x", "t", "r", "a">>)
TextAccepts == Text(<<"a", "c", "c", "e", "p", "t", "s">>)
TextNetwork == Text(<<"n", "e", "t", "w", "o", "r", "k">>)
TextBase == Text(<<"e", "i", "p", "1", "5", "5", ":", "8", "4", "5", "3">>)
TextTxHash == Text(<<"0", "x", "T", "x">>)

\* dicts in wire form
EmptyObject == PyDict(<<>>)
RequirementsDict == PyDict(<<<<TextScheme, PyString(TextExact)>>, <<TextNetwork, PyString(TextBase)>>>>)
PayloadDict == PyDict(<<<<Text(<<"t", "4", "0", "2", "V", "e", "r", "s", "i", "o", "n">>), PyNumber(2)>>, <<TextPayload, PyDict(<<<<TextSignature, PyString(Text(<<"0", "x", "a", "b", "c">>))>>>>)>>>>)
ResponseDict == PyDict(<<<<TextSuccess, PyBool(TRUE)>>, <<TextTransaction, PyString(TextTxHash)>>, <<Text(<<"p", "a", "y", "e", "r">>), NoneValue>>>>)
SettledDict == PyDict(<<<<TextRequirements, RequirementsDict>>, <<TextSuccess, PyBool(FALSE)>>>>)
\* a string with a quote, a backslash, a newline and a tab
EscapedDict == PyDict(<<<<TextError, PyString(<<Ord("a"), Quote, Backslash, 10, 9, Ord("/")>>)>>>>)
\* a string with U+00E9, U+20AC, U+1F600 and DEL
UnicodeDict == PyDict(<<<<Text(<<"d", "e", "s", "c", "r", "i", "p", "t", "i", "o", "n">>), PyString(<<233, 8364, 128512, 127>>)>>>>)
NestedDict == PyDict(<<<<TextAccepts, PyList(<<RequirementsDict, EmptyObject, PyList(<<>>)>>)>>, <<TextExtra, PyDict(<<<<Text(<<"s", "e", "q", "n", "o">>), PyNumber(0 - 5)>>, <<Text(<<"o", "k">>), PyBool(FALSE)>>, <<<<>>, PyNumber(0)>>>>)>>>>)

\* model instances
RequirementsModel == Model("PaymentRequirementsV2", <<<<TextScheme, PyString(TextExact)>>, <<TextNetwork, PyString(TextBase)>>, <<Text(<<"a", "s", "s", "e", "t">>), PyString(Text(<<"0", "x", "U", "S", "D", "C">>))>>, <<Text(<<"a", "m", "o", "u", "n", "t">>), PyString(Text(<<"1", "0", "0">>))>>, <<Text(<<"p", "a", "y", "_", "t", "o">>), PyString(Text(<<"0", "x", "P", "a", "y", "T", "o">>))>>, <<Text(<<"m", "a", "x", "_", "t", "i", "m", "e", "o", "u", "t", "_", "s", "e", "c", "o", "n", "d", "s">>), PyNumber(300)>>, <<TextExtra, EmptyObject>>>>)
ResponseModel == Model("PaymentResponseV2", <<<<TextSuccess, PyBool(TRUE)>>, <<Text(<<"e", "r", "r", "o", "r", "_", "r", "e", "a", "s", "o", "n">>), NoneValue>>, <<Text(<<"p", "a", "y", "e", "r">>), NoneValue>>, <<TextTransaction, PyString(TextTxHash)>>, <<TextNetwork, PyString(TextBase)>>, <<TextRequirements, RequirementsModel>>>>)
SettleResponseModel == Model("SettleResponse", <<<<TextSuccess, PyBool(FALSE)>>, <<Text(<<"e", "r", "r", "o", "r", "_", "r", "e", "a", "s", "o", "n">>), PyString(Text(<<"f", "a", "i", "l", "e", "d">>))>>, <<TextTransaction, NoneValue>>, <<TextNetwork, NoneValue>>, <<Text(<<"p", "a", "y", "e", "r">>), NoneValue>>>>)
PayloadModel == Model("PaymentPayloadV2", <<<<Text(<<"t", "4", "0", "2", "_", "v", "e", "r", "s", "i", "o", "n">>), PyNumber(2)>>, <<Text(<<"r", "e", "s", "o", "u", "r", "c", "e">>), NoneValue>>, <<Text(<<"a", "c", "c", "e", "p", "t", "e", "d">>), RequirementsModel>>, <<TextPayload, PyDict(<<<<TextSignature, PyString(Text(<<"0", "x", "a", "b", "c">>))>>>>)>>, <<Text(<<"e", "x", "t", "e", "n", "s", "i", "o", "n", "s">>), NoneValue>>>>)
RequiredModel == Model("PaymentRequiredV2", <<<<Text(<<"t", "4", "0", "2", "_", "v", "e", "r", "s", "i", "o", "n">>), PyNumber(2)>>, <<Text(<<"r", "e", "s", "o", "u", "r", "c", "e">>), Model("ResourceInfo", <<<<Text(<<"u", "r", "l">>), PyString(Text(<<"h", "t", "t", "p", "s", ":", "/", "/", "a", ".", "b">>))>>, <<Text(<<"d", "e", "s", "c", "r", "i", "p", "t", "i", "o", "n">>), PyString(<<>>)>>, <<Text(<<"m", "i", "m", "e", "_", "t", "y", "p", "e">>), PyString(<<>>)>>>>)>>, <<TextAccepts, PyList(<<RequirementsModel>>)>>, <<TextError, PyString(Text(<<"P", "a", "y", "m", "e", "n", "t", " ", "r", "e", "q", "u", "i", "r", "e", "d">>))>>, <<Text(<<"e", "x", "t", "e", "n", "s", "i", "o", "n", "s">>), NoneValue>>>>)

HeaderObjects == {EmptyObject, RequirementsDict, PayloadDict, ResponseDict, SettledDict, EscapedDict, UnicodeDict, NestedDict, RequirementsModel, ResponseModel, SettleResponseModel, PayloadModel, RequiredModel}
\* the second argument of encode_payment_response_header
SeparateRequirements == {NoneValue, EmptyObject, RequirementsDict}

\* no header function has been called yet
HeaderIdle == header_call = NoneValue

\* encode_payment_*_header(obj), or encode_payment_response_header(obj, reqs)
EncodeHeader(kind, obj, reqs) ==
    /\ HeaderIdle
    /\ header_call' = [op |-> "encode", kind |-> kind, argument |-> obj, requirements |-> reqs]
    /\ header_encoded' = Returned(Encoded(kind, obj, reqs))
    /\ UNCHANGED header_result

\* the receiver of the header decodes it with the decoder of the same kind
DecodeEncoded ==
    /\ header_call # NoneValue
    /\ header_call.op = "encode"
    /\ header_result = NoneValue
    /\ header_result' = Decoded(header_call.kind, header_encoded.value)
    /\ UNCHANGED <<header_call, header_encoded>>

\* decode_payment_*_header(header_value) on a header from the network
DecodeReceived(kind, received) ==
    /\ HeaderIdle
    /\ header_call' = [op |-> "decode", kind |-> kind, argument |-> received, requirements |-> NoneValue]
    /\ header_result' = Decoded(kind, received)
    /\ UNCHANGED header_encoded

\* what the header functions leave alone
header_rest == <<vars, registry_vars, client_vars, global_vars, middleware_vars, wait_vars>>

HeaderNext ==
    \/ HeaderIdle /\ \E kind \in {"payment_signature", "payment_required"}, obj \in HeaderObjects : EncodeHeader(kind, obj, NoneValue) /\ UNCHANGED header_rest
    \/ HeaderIdle /\ \E obj \in HeaderObjects, reqs \in SeparateRequirements : EncodeHeader("payment_response", obj, reqs) /\ UNCHANGED header_rest
    \/ DecodeEncoded /\ UNCHANGED header_rest
    \/ HeaderIdle /\ \E kind \in HeaderKinds, n \in 0..MaxHeaderLen : \E received \in HeaderValues(n) : DecodeReceived(kind, received) /\ UNCHANGED header_rest

HeaderSpecInit == Init /\ RegistryInit({}) /\ ClientInit({}) /\ MoreInit
HeaderSpec == HeaderSpecInit /\ [][HeaderNext]_all_vars

RoundTripDone == header_call # NoneValue /\ header_call.op = "encode" /\ header_result # NoneValue
\* the object as a dict: x itself, or the dump of a model
WireForm(obj) == IF obj.tag = "model" THEN model_dump(obj) ELSE obj

\* C23: decoding the header that an encoder made of an object yields the
\* object again, in its dict form, for each of the three pairs; when the
\* response encoder is given requirements separately and the object has
\* none, the object comes back with them added.
RoundTripYieldsObject ==
    RoundTripDone =>
        IF header_call.kind = "payment_response" /\ Truthy(header_call.requirements) /\ ~HasKey(WireForm(header_call.argument), TextRequirements)
        THEN header_result = Returned(PyDict(Append(WireForm(header_call.argument).v, <<TextRequirements, header_call.requirements>>)))
        ELSE header_result = Returned(WireForm(header_call.argument))

UnicodeRoundTrip ==
    /\ RoundTripDone
    /\ header_call.argument = UnicodeDict
    /\ header_result.kind = "return"

InvalidHeaderError(exc) ==
    /\ exc.type = "ValueError"
    /\ \E name \in {"payment signature", "payment required", "payment response"} :
          exc.message \in {"Invalid " \o name \o " header: not valid base64", "Invalid " \o name \o " header: invalid JSON"}

\* well-formed base64: whole quads of alphabet characters, the last one
\* possibly padded
WellFormedBase64(data) == data # <<>> /\ Len(data) % 4 = 0 /\ Base64Body(data)
WellFormedHeader(data) ==
    /\ WellFormedBase64(data)
    /\ utf8_decode(b64decode(data).value).kind = "return"
    /\ json_loads(utf8_decode(b64decode(data).value).value).kind = "return"

\* C24: a decoder returns a value only for well-formed base64 of
\* well-formed JSON, and for every other header raises the "invalid header"
\* ValueError of encoding.py and no other exception.
MalformedHeaderIsInvalidHeader ==
    (header_call # NoneValue /\ header_call.op = "decode") =>
        IF WellFormedHeader(header_call.argument)
        THEN header_result.kind = "return"
        ELSE header_result.kind = "raise" /\ InvalidHeaderError(header_result.exc)

(***************************************************************************)
(* fastapi/middleware.py: PaymentMiddleware._dispatch, lines 269-380, for  *)
(* the requests of HttpRequests.  The coroutine runs to its next await in  *)
(* one step; the reply of the facilitator or of the route handler and the  *)
(* resumption of the coroutine are steps of their own.                     *)
(***************************************************************************)
\* _find_matching_config(path), lines 382-394, with one config for /paid
Protected(path) == path = "/paid"

\* lines 412-420: the requirements built from the config
BuiltRequirements == [scheme |-> TextExact, network |-> TextBase]

TextUpto == Text(<<"u", "p", "t", "o">>)
\* payment payloads as the client sends them
PaymentDict(scheme) == PyDict(<<<<TextScheme, PyString(scheme)>>, <<TextNetwork, PyString(TextBase)>>, <<TextPayload, PyDict(<<<<TextSignature, PyString(Text(<<"0", "x", "a", "b", "c">>))>>>>)>>>>)
\* the header values of a request: none, empty, base64 of bytes that are
\* not UTF-8, a dict that is no payment, a payment of another scheme, and a
\* payment that matches
PaymentHeaders == {NoneValue, PyString(<<>>), PyString(Text(<<"/", "w", "=", "=">>)), PyString(encode_payment_signature_header(EmptyObject)), PyString(encode_payment_signature_header(PaymentDict(TextUpto))), PyString(encode_payment_signature_header(PaymentDict(TextExact)))}
HttpRequest(path, name, value) == [path |-> path, header |-> name, value |-> value]
RequestInputs == {HttpRequest("/free", "x-payment", NoneValue)} \cup {HttpRequest("/paid", name, value) : name \in {"payment-signature", "x-payment"}, value \in PaymentHeaders}

\* extract_payment_from_headers(headers), encoding.py lines 272-290
extract_payment_from_headers(request) ==
    IF request.value = NoneValue THEN <<T402_VERSION_V2, NoneValue>>
    ELSE IF request.header = "payment-signature" THEN <<T402_VERSION_V2, request.value>>
    ELSE <<T402_VERSION_V1, request.value>>

ValidationError == [type |-> "ValidationError", message |-> "validation error for PaymentPayloadV1"]
\* the value of a key of a dict, or None
ValueOf(data, key) ==
    IF HasKey(data, key) THEN (CHOOSE pair \in {data.v[i] : i \in 1..Len(data.v)} : pair[1] = key)[2]
    ELSE NoneValue
\* PaymentPayload built from payment_dict, line 320: scheme, network and payload
\* are required; what the payload holds is taken to validate
PaymentPayloadOf(payment_dict) ==
    IF /\ payment_dict.tag = "dict"
       /\ ValueOf(payment_dict, TextScheme).tag = "str"
       /\ ValueOf(payment_dict, TextNetwork).tag = "str"
       /\ ValueOf(payment_dict, TextPayload).tag = "dict"
    THEN Returned([scheme |-> ValueOf(payment_dict, TextScheme).v, network |-> ValueOf(payment_dict, TextNetwork).v])
    ELSE Raised(ValidationError)

\* lines 318-325: the payment, or the exception of the try block
ValidatedPayment(payment_dict) ==
    IF payment_dict.kind = "raise" THEN payment_dict ELSE PaymentPayloadOf(payment_dict.value)
DecodedPayment(payment_header) ==
    ValidatedPayment(decode_payment_signature_header(payment_header.v))

\* find_matching_payment_requirements([requirements], payment), common.py
\* lines 149-166
find_matching_payment_requirements(reqs, payment) ==
    IF reqs.scheme = payment.scheme /\ reqs.network = payment.network THEN reqs ELSE NoneValue

\* create_402_response(error), lines 300-309 and 434-520: always status 402
create_402_response(error) == [status |-> 402, from |-> "middleware", error |-> error, settlement |-> NoneValue]
\* a response of the route handler
HandlerResponse(status_code) == [status |-> status_code, from |-> "handler", error |-> "", settlement |-> NoneValue]

VerifyResponse(is_valid, invalid_reason) == [is_valid |-> is_valid, invalid_reason |-> invalid_reason]
SettleResponse(success, error_reason) == [success |-> success, error_reason |-> error_reason]
FacilitatorError == [type |-> "Exception", message |-> "facilitator unreachable"]
HandlerError == [type |-> "Exception", message |-> "handler failed"]
VerifyOutcomes == {Raised(FacilitatorError), Returned(VerifyResponse(FALSE, "insufficient_funds")), Returned(VerifyResponse(FALSE, "")), Returned(VerifyResponse(TRUE, ""))}
HandlerOutcomes == {Raised(HandlerError), Returned(HandlerResponse(200)), Returned(HandlerResponse(204)), Returned(HandlerResponse(302)), Returned(HandlerResponse(404))}
SettleOutcomes == {Raised(FacilitatorError), Returned(SettleResponse(TRUE, "")), Returned(SettleResponse(FALSE, "insufficient_funds")), Returned(SettleResponse(FALSE, ""))}

\* x or "Unknown error"
OrUnknown(reason) == IF reason = "" THEN "Unknown error" ELSE reason

\* `return response`, or an exception that leaves _dispatch
Responds(r, response) ==
    /\ mresponse' = [mresponse EXCEPT ![r] = response]
    /\ mpc' = [mpc EXCEPT ![r] = "done"]
\* `await method(...)`: the call is recorded with no outcome yet
MiddlewareAwaits(r, method, next_pc) ==
    /\ mcalls' = [mcalls EXCEPT ![r] = Append(@, [method |-> method, outcome |-> NoneValue])]
    /\ mpc' = [mpc EXCEPT ![r] = next_pc]
\* the awaited call of request r has its outcome
Replies(r, outcome, next_pc) ==
    /\ mcalls' = [mcalls EXCEPT ![r] = [@ EXCEPT ![Len(@)] = [method |-> @.method, outcome |-> outcome]]]
    /\ mpc' = [mpc EXCEPT ![r] = next_pc]
OutcomeFor(r) == mcalls[r][Len(mcalls[r])].outcome

\* lines 318-336: the payment was decoded, or the try block raised
DispatchPayment(r, payment) ==
    IF payment.kind = "raise"
    THEN Responds(r, Returned(create_402_response("Invalid payment header format"))) /\ UNCHANGED mcalls
    ELSE IF find_matching_payment_requirements(BuiltRequirements, payment.value) = NoneValue
    THEN Responds(r, Returned(create_402_response("No matching payment requirements found"))) /\ UNCHANGED mcalls
    ELSE MiddlewareAwaits(r, "verify", "verifying") /\ UNCHANGED mresponse
\* lines 282-317: the path and the payment header of the request
DispatchHeader(r, request, payment_header) ==
    IF ~Protected(request.path)
    THEN MiddlewareAwaits(r, "call_next", "passing") /\ UNCHANGED mresponse
    ELSE IF payment_header = NoneValue
    THEN Responds(r, Returned(create_402_response("No payment header provided"))) /\ UNCHANGED mcalls
    ELSE IF payment_header.v = <<>>
    THEN Responds(r, Returned(create_402_response("No payment header provided"))) /\ UNCHANGED mcalls
    ELSE DispatchPayment(r, DecodedPayment(payment_header))
\* lines 282-336: from the arrival of the request to the first await
Dispatch(r, request) ==
    /\ mpc[r] = "idle"
    /\ mrequest' = [mrequest EXCEPT ![r] = request]
    /\ DispatchHeader(r, request, extract_payment_from_headers(request)[2])

\* facilitator.verify(payment, selected_requirements) returns or raises
VerifyReplies(r, outcome) ==
    /\ mpc[r] = "verifying"
    /\ Replies(r, outcome, "verified")
    /\ UNCHANGED <<mrequest, mresponse>>

\* a middleware that passes the request on whatever verify said
AfterVerifyUnchecked(r) ==
    /\ mpc[r] = "verified"
    /\ MiddlewareAwaits(r, "call_next", "handling")
    /\ UNCHANGED <<mrequest, mresponse>>

\* lines 335-354: the coroutine resumes with the outcome of verify
AfterVerify(r) ==
    /\ mpc[r] = "verified"
    /\ UNCHANGED mrequest
    /\ IF OutcomeFor(r).kind = "raise"
       THEN Responds(r, Returned(create_402_response("Payment verification failed: " \o OutcomeFor(r).exc.message))) /\ UNCHANGED mcalls
       ELSE IF ~OutcomeFor(r).value.is_valid
       THEN Responds(r, Returned(create_402_response("Invalid payment: " \o OrUnknown(OutcomeFor(r).value.invalid_reason)))) /\ UNCHANGED mcalls
       ELSE MiddlewareAwaits(r, "call_next", "handling") /\ UNCHANGED mresponse

\* call_next(request) returns the response of the route handler or raises
HandlerReplies(r, outcome) ==
    /\ mpc[r] \in {"passing", "handling"}
    /\ Replies(r, outcome, IF mpc[r] = "passing" THEN "passed" ELSE "handled")
    /\ UNCHANGED <<mrequest, mresponse>>

\* line 284: `return await call_next(request)` for a path without config
AfterPass(r) ==
    /\ mpc[r] = "passed"
    /\ Responds(r, OutcomeFor(r))
    /\ UNCHANGED <<mrequest, mcalls>>

\* lines 354-362: the coroutine resumes with the outcome of the handler
AfterHandler(r) ==
    /\ mpc[r] = "handled"
    /\ UNCHANGED mrequest
    /\ IF OutcomeFor(r).kind = "raise"
       THEN Responds(r, OutcomeFor(r)) /\ UNCHANGED mcalls
       ELSE IF OutcomeFor(r).value.status < 200 \/ OutcomeFor(r).value.status >= 300
       THEN Responds(r, OutcomeFor(r)) /\ UNCHANGED mcalls
       ELSE MiddlewareAwaits(r, "settle", "settling") /\ UNCHANGED mresponse

\* facilitator.settle(payment, selected_requirements) returns or raises
SettleReplies(r, outcome) ==
    /\ mpc[r] = "settling"
    /\ Replies(r, outcome, "settled")
    /\ UNCHANGED <<mrequest, mresponse>>

\* the response of the route handler, the outcome of the last call_next
HandlerResponseOf(r) ==
    mcalls[r][CHOOSE i \in 1..Len(mcalls[r]) : mcalls[r][i].method = "call_next"].outcome.value

\* lines 365-371: the settlement header put on the handler's response
WithSettlementHeader(response, version, settle_response) ==
    [response EXCEPT !.settlement = [name |-> IF version = T402_VERSION_V2 THEN "PAYMENT-RESPONSE" ELSE "X-PAYMENT-RESPONSE", success |-> settle_response.success]]

\* a middleware that returns the handler's response whatever settle said
AfterSettleUnchecked(r) ==
    /\ mpc[r] = "settled"
    /\ Responds(r, Returned(HandlerResponseOf(r)))
    /\ UNCHANGED <<mrequest, mcalls>>

\* lines 361-380: the coroutine resumes with the outcome of settle
AfterSettle(r) ==
    /\ mpc[r] = "settled"
    /\ UNCHANGED <<mrequest, mcalls>>
    /\ IF OutcomeFor(r).kind = "raise"
       THEN Responds(r, Returned(create_402_response("Settlement failed: " \o OutcomeFor(r).exc.message)))
       ELSE IF ~OutcomeFor(r).value.success
       THEN Responds(r, Returned(create_402_response("Settlement failed: " \o OrUnknown(OutcomeFor(r).value.error_reason))))
       ELSE Responds(r, Returned(WithSettlementHeader(HandlerResponseOf(r), extract_payment_from_headers(mrequest[r])[1], OutcomeFor(r).value)))

\* what the middleware leaves alone
middleware_rest == <<vars, registry_vars, client_vars, global_vars, header_vars, wait_vars>>

MiddlewareNext ==
    \E r \in HttpRequests :
        \/ mpc[r] = "idle" /\ \E request \in RequestInputs : Dispatch(r, request) /\ UNCHANGED middleware_rest
        \/ \E outcome \in VerifyOutcomes : VerifyReplies(r, outcome) /\ UNCHANGED middleware_rest
        \/ AfterVerify(r) /\ UNCHANGED middleware_rest
        \/ \E outcome \in HandlerOutcomes : HandlerReplies(r, outcome) /\ UNCHANGED middleware_rest
        \/ AfterPass(r) /\ UNCHANGED middleware_rest
        \/ AfterHandler(r) /\ UNCHANGED middleware_rest
        \/ \E outcome \in SettleOutcomes : SettleReplies(r, outcome) /\ UNCHANGED middleware_rest
        \/ AfterSettle(r) /\ UNCHANGED middleware_rest

MiddlewareSpecInit == Init /\ RegistryInit({}) /\ ClientInit({}) /\ MoreInit
MiddlewareSpec == MiddlewareSpecInit /\ [][MiddlewareNext]_all_vars

\* the event loop resumes a coroutine whose awaited call has its outcome
MiddlewareFairness ==
    \A r \in HttpRequests :
        /\ WF_all_vars(AfterVerify(r) /\ UNCHANGED middleware_rest)
        /\ WF_all_vars(AfterPass(r) /\ UNCHANGED middleware_rest)
        /\ WF_all_vars(AfterHandler(r) /\ UNCHANGED middleware_rest)
        /\ WF_all_vars(AfterSettle(r) /\ UNCHANGED middleware_rest)
MiddlewareLiveSpec == MiddlewareSpecInit /\ [][MiddlewareNext]_all_vars /\ MiddlewareFairness

\* the calls of request r to `method`
CallsOf(r, method) == {i \in 1..Len(mcalls[r]) : mcalls[r][i].method = method}
\* verify of request r raised or returned is_valid = False
VerifyRejected(r) ==
    \E i \in CallsOf(r, "verify") :
        /\ mcalls[r][i].outcome # NoneValue
        /\ mcalls[r][i].outcome.kind = "raise" \/ ~mcalls[r][i].outcome.value.is_valid
Answered402(r) == mresponse[r] # NoneValue /\ mresponse[r].kind = "return" /\ mresponse[r].value.status = 402

\* C21: when verify returns isValid=false or fails for a request to a
\* protected path, neither the route handler nor settle is ever invoked
\* for that request, and the request is answered with 402.
RejectedNeverServed ==
    \A r \in HttpRequests :
        /\ [](VerifyRejected(r) => CallsOf(r, "call_next") = {} /\ CallsOf(r, "settle") = {})
        /\ VerifyRejected(r) ~> Answered402(r)

RejectedAnswered402 ==
    \E r \in HttpRequests :
        /\ VerifyRejected(r)
        /\ Answered402(r)
        /\ mresponse[r].value.error = "Invalid payment: Unknown error"

\* settle of request r returned success
SettleSucceeded(r) ==
    \E i \in CallsOf(r, "settle") :
        /\ mcalls[r][i].outcome # NoneValue
        /\ mcalls[r][i].outcome.kind = "return"
        /\ mcalls[r][i].outcome.value.success
\* settle of request r raised or returned success = False
SettleFailed(r) ==
    \E i \in CallsOf(r, "settle") :
        /\ mcalls[r][i].outcome # NoneValue
        /\ mcalls[r][i].outcome.kind = "raise" \/ ~mcalls[r][i].outcome.value.success
Answered(r) == mpc[r] = "done"
HandlerSuccessReceived(r) ==
    /\ Answered(r)
    /\ mresponse[r].kind = "return"
    /\ mresponse[r].value.from = "handler"
    /\ mresponse[r].value.status \in 200..299

\* C27: for a request to a protected path the client receives the route
\* handler's 2xx response only if settle returned success for that
\* request; if settle reports failure or raises, it receives a 402.
SuccessOnlyIfSettled ==
    \A r \in HttpRequests :
        (Answered(r) /\ Protected(mrequest[r].path)) =>
            /\ HandlerSuccessReceived(r) => SettleSucceeded(r)
            /\ SettleFailed(r) => Answered402(r)

SettleRaisedAnswered402 ==
    \E r \in HttpRequests :
        /\ Answered(r)
        /\ \E i \in CallsOf(r, "settle") : mcalls[r][i].outcome = Raised(FacilitatorError)
        /\ Answered402(r)

(***************************************************************************)
(* Python float: IEEE 754 binary64, round to nearest, ties to even         *)
(*                                                                         *)
(* A non-negative double is its exponent e and its 53 significand bits m,  *)
(* most significant first; m[k] has the weight 2^(e - k + 1).  A nonzero   *)
(* double has m[1] = 1.  Only the values wait_for_delivery computes occur: *)
(* no subnormal, infinity or NaN.                                          *)
(***************************************************************************)
IsZero(x) == x.m[1] = 0

\* the significand plus one unit in the last place
Increment(e, m) ==
    IF \A k \in 1..MantissaBits : m[k] = 1
    THEN [e |-> e + 1, m |-> [k \in 1..MantissaBits |-> IF k = 1 THEN 1 ELSE 0]]
    ELSE [e |-> e, m |-> [k \in 1..MantissaBits |-> IF \E j \in k + 1..MantissaBits : m[j] = 0 THEN m[k] ELSE 1 - m[k]]]

\* the double nearest to the number whose bits are `bits` (bits[1] = 1 of
\* weight 2^e) followed by something nonzero exactly if `sticky`
RoundToNearestEven(e, bits, sticky) ==
    IF /\ Len(bits) > MantissaBits
       /\ bits[MantissaBits + 1] = 1
       /\ \/ sticky
          \/ bits[MantissaBits] = 1
          \/ \E k \in MantissaBits + 2..Len(bits) : bits[k] = 1
    THEN Increment(e, SubSeq(bits, 1, MantissaBits))
    ELSE [e |-> e, m |-> [k \in 1..MantissaBits |-> IF k <= Len(bits) THEN bits[k] ELSE 0]]

\* long division: after the leading bit the remainder is n - d with
\* d <= n < 2 d, and every further bit doubles the remainder
RECURSIVE Remainders(_, _)
Remainders(d, rs) ==
    IF Len(rs) = MantissaBits + 1 THEN rs
    ELSE Remainders(d, Append(rs, IF 2 * rs[Len(rs)] >= d THEN 2 * rs[Len(rs)] - d ELSE 2 * rs[Len(rs)]))
QuotientBits(d, rs) ==
    [k \in 1..MantissaBits + 1 |-> IF k = 1 THEN 1 ELSE IF 2 * rs[k - 1] >= d THEN 1 ELSE 0]
Quotient(e, d, rs) == RoundToNearestEven(e, QuotientBits(d, rs), rs[MantissaBits + 1] # 0)
\* n / d for d * 2^k <= n < d * 2^(k+1)
QuotientAbove(n, d, k) == Quotient(k, d * 2^k, Remainders(d * 2^k, <<n - d * 2^k>>))
\* n / d for d <= n * 2^k < 2 d
QuotientBelow(n, d, k) == Quotient(0 - k, d, Remainders(d, <<n * 2^k - d>>))
\* int.__truediv__(n, d) for 0 < n and 0 < d, correctly rounded
truediv(n, d) ==
    IF n >= d
    THEN QuotientAbove(n, d, CHOOSE k \in 0..20 : d * 2^k <= n /\ n < d * 2^(k + 1))
    ELSE QuotientBelow(n, d, CHOOSE k \in 1..20 : d <= n * 2^k /\ n * 2^k < 2 * d)

\* the carries of a + b, bit by bit from the last: cs[k] goes into bit k,
\* and the carry out of bit k is added in front of those of the bits after it
RECURSIVE Carries(_, _, _)
Carries(a, b, cs) ==
    IF Len(cs) = Len(a) + 1 THEN cs
    ELSE Carries(a, b, <<(a[Len(a) + 1 - Len(cs)] + b[Len(a) + 1 - Len(cs)] + cs[1]) \div 2>> \o cs)
SumBits(a, b, cs) == [k \in 1..Len(a) |-> (a[k] + b[k] + cs[k + 1]) % 2]
SumOf(e, a, b, cs) ==
    IF cs[1] = 1
    THEN RoundToNearestEven(e + 1, <<1>> \o SumBits(a, b, cs), FALSE)
    ELSE RoundToNearestEven(e, SumBits(a, b, cs), FALSE)
\* the exact sum of the bit strings a and b of equal length
AddAligned(e, a, b) == SumOf(e, a, b, Carries(a, b, <<0>>))
\* x + y for x.e >= y.e: y is shifted right by the difference
AddShifted(x, y, shift) ==
    AddAligned(x.e, [k \in 1..MantissaBits + shift |-> IF k <= MantissaBits THEN x.m[k] ELSE 0], [k \in 1..MantissaBits + shift |-> IF k <= shift THEN 0 ELSE y.m[k - shift]])
\* float.__add__(x, y) for non-negative x and y
float_add(x, y) ==
    IF IsZero(x) THEN y
    ELSE IF IsZero(y) THEN x
    ELSE IF x.e < y.e THEN (IF y.e - x.e > MantissaBits + 1 THEN y ELSE AddShifted(y, x, y.e - x.e))
    ELSE IF x.e - y.e > MantissaBits + 1 THEN x ELSE AddShifted(x, y, x.e - y.e)

\* float.__lt__(x, y) for non-negative x and y
float_lt(x, y) ==
    IF IsZero(y) THEN FALSE
    ELSE IF IsZero(x) THEN TRUE
    ELSE IF x.e # y.e THEN x.e < y.e
    ELSE \E k \in 1..MantissaBits : x.m[k] < y.m[k] /\ \A j \in 1..k - 1 : x.m[j] = y.m[j]

(***************************************************************************)
(* bridge/scan.py, lines 115-180: LayerZeroScanClient.wait_for_delivery    *)
(*                                                                         *)
(* get_message is awaited: the call and its reply are separate steps, and  *)
(* so are asyncio.sleep and the wake-up after it.  What get_message        *)
(* returns or raises is chosen by the environment.                         *)
(***************************************************************************)
\* bridge/constants.py
DEFAULT_TIMEOUT == 600000
DEFAULT_POLL_INTERVAL == 10000

MaxTimeoutMs == 24
MaxPollIntervalMs == 4
\* no call of the inputs polls more often than this
MaxPolls == 64

\* LayerZeroMessageStatus, bridge/types.py lines 19-26
LayerZeroMessageStatus == {"INFLIGHT", "CONFIRMING", "DELIVERED", "FAILED", "BLOCKED"}
LayerZeroMessage(guid, status) == [guid |-> guid, status |-> status]

\* a guid as the bridge returns it, and one whose text has the words the
\* except clause looks for
Guids == {"0x1f", "Not Found"}
\* "not found" in guid.lower()
MentionsNotFound(guid) == guid = "Not Found"

\* lines 80-81 of get_message
MessageNotFound(guid) == ValueError("Message not found: " \o guid)
\* response.raise_for_status(), line 83
HTTPError == [type |-> "httpx.HTTPStatusError", message |-> "Server error '500 Internal Server Error'"]
\* LayerZeroMessageStatus(data.get("status") ...), line 208, for a status
\* the enum does not have
InvalidStatus == ValueError("'PAYLOAD_STORED' is not a valid LayerZeroMessageStatus")
GetMessageErrors(guid) == {MessageNotFound(guid), HTTPError, InvalidStatus}
GetMessageOutcomes(guid) ==
    {Returned(LayerZeroMessage(guid, s)) : s \in LayerZeroMessageStatus} \cup {Raised(exc) : exc \in GetMessageErrors(guid)}

\* lines 164, 167, 178
MessageFailed(guid) == ValueError("Bridge message failed: " \o guid)
MessageBlocked(guid) == ValueError("Bridge message blocked by DVN: " \o guid)
WaitTimeout(guid) == ValueError("Timeout waiting for message delivery: " \o guid)

\* line 175: "not found" in str(e).lower(), for the ValueErrors that can
\* reach the except clause
NotFoundIn(exc, guid) ==
    \/ exc = MessageNotFound(guid)
    \/ exc \in {MessageFailed(guid), MessageBlocked(guid)} /\ MentionsNotFound(guid)

\* lines 132-140: the defaults stand unless the option is positive
TimeoutMs(options) ==
    IF options = NoneValue THEN DEFAULT_TIMEOUT
    ELSE IF options.timeout > 0 THEN options.timeout
    ELSE DEFAULT_TIMEOUT
PollIntervalMs(options) ==
    IF options = NoneValue THEN DEFAULT_POLL_INTERVAL
    ELSE IF options.poll_interval > 0 THEN options.poll_interval
    ELSE DEFAULT_POLL_INTERVAL
OnStatusChange(options) == IF options = NoneValue THEN FALSE ELSE options.on_status_change
\* lines 142-143
TimeoutSec(options) == truediv(TimeoutMs(options), 1000)
PollIntervalSec(options) == truediv(PollIntervalMs(options), 1000)

\* the options of the calls: on_status_change is there or not
WaitDeliveryOptions(timeout, poll_interval, on_status_change) ==
    [timeout |-> timeout, poll_interval |-> poll_interval, on_status_change |-> on_status_change]
WaitOptions ==
    {NoneValue} \cup {options \in {WaitDeliveryOptions(t, p, c) : t \in 0..MaxTimeoutMs, p \in 0..MaxPollIntervalMs, c \in BOOLEAN} : TimeoutMs(options) \div PollIntervalMs(options) < MaxPolls}

\* wait_for_delivery ends
WaitEnds(ending) ==
    /\ wait_result' = ending
    /\ wait_pc' = "done"
\* line 147: the loop test, then line 149 or line 178
WhileElapsed(now, call) ==
    IF float_lt(now, TimeoutSec(call.options))
    THEN /\ wait_pc' = "polling"
         /\ polls' = polls + 1
         /\ UNCHANGED wait_result
    ELSE /\ WaitEnds(Raised(WaitTimeout(call.guid)))
         /\ UNCHANGED polls

\* lines 115-149: from the call to the first get_message
WaitForDelivery(guid, options) ==
    /\ wait_pc = "idle"
    /\ wait_call' = [guid |-> guid, options |-> options]
    /\ elapsed' = DoubleZero
    /\ last_status' = NoneValue
    /\ WhileElapsed(DoubleZero, [guid |-> guid, options |-> options])
    /\ UNCHANGED notified

\* lines 152-155: the status is noted, and the callback told of a change
NoteStatus(status) ==
    /\ last_status' = [tag |-> "LayerZeroMessageStatus", v |-> status]
    /\ notified' = IF [tag |-> "LayerZeroMessageStatus", v |-> status] # last_status /\ OnStatusChange(wait_call.options) THEN [tag |-> "LayerZeroMessageStatus", v |-> status] ELSE notified
\* lines 170-176: a ValueError with "not found" is slept on, any other
\* exception leaves wait_for_delivery
Caught(exc) ==
    IF exc.type = "ValueError" /\ NotFoundIn(exc, wait_call.guid)
    THEN wait_pc' = "sleeping" /\ UNCHANGED wait_result
    ELSE WaitEnds(Raised(exc))
\* lines 157-168: the terminal states, or the sleep
CheckStatus(message) ==
    IF message.status = "DELIVERED" THEN WaitEnds(Returned(message))
    ELSE IF message.status = "FAILED" THEN Caught(MessageFailed(wait_call.guid))
    ELSE IF message.status = "BLOCKED" THEN Caught(MessageBlocked(wait_call.guid))
    ELSE wait_pc' = "sleeping" /\ UNCHANGED wait_result

\* lines 149-176: get_message returned or raised
GetMessageReplies(outcome) ==
    /\ wait_pc = "polling"
    /\ IF outcome.kind = "raise"
       THEN Caught(outcome.exc) /\ UNCHANGED <<last_status, notified>>
       ELSE NoteStatus(outcome.value.status) /\ CheckStatus(outcome.value)
    /\ UNCHANGED <<wait_call, elapsed, polls>>

\* lines 169-170 and 175-176, then 147: the sleep is over
Wake ==
    /\ wait_pc = "sleeping"
    /\ elapsed' = float_add(elapsed, PollIntervalSec(wait_call.options))
    /\ WhileElapsed(float_add(elapsed, PollIntervalSec(wait_call.options)), wait_call)
    /\ UNCHANGED <<wait_call, last_status, notified>>

\* what wait_for_delivery leaves alone
wait_rest == <<vars, registry_vars, client_vars, global_vars, header_vars, middleware_vars>>

WaitNext ==
    \/ \E guid \in Guids, options \in WaitOptions : WaitForDelivery(guid, options) /\ UNCHANGED wait_rest
    \/ wait_pc = "polling" /\ \E outcome \in GetMessageOutcomes(wait_call.guid) : GetMessageReplies(outcome) /\ UNCHANGED wait_rest
    \/ Wake /\ UNCHANGED wait_rest

WaitSpecInit == Init /\ RegistryInit({}) /\ ClientInit({}) /\ MoreInit
WaitSpec == WaitSpecInit /\ [][WaitNext]_all_vars

\* ceil(n / d) for positive integers
CeilDiv(n, d) == (n + d - 1) \div d
\* get_message was called at most ceil(timeout / poll_interval) times
PollsWithinBound ==
    wait_call # NoneValue => polls <= CeilDiv(TimeoutMs(wait_call.options), PollIntervalMs(wait_call.options))
\* wait_for_delivery returned a DELIVERED message or raised one of its
\* three errors, unless get_message raised something it does not handle
EndsDeliveredOrRaises ==
    wait_pc = "done" =>
        \/ wait_result.kind = "return" /\ wait_result.value.status = "DELIVERED"
        \/ wait_result.kind = "raise" /\ wait_result.exc \in {MessageFailed(wait_call.guid), MessageBlocked(wait_call.guid), WaitTimeout(wait_call.guid)}
        \/ wait_result.kind = "raise" /\ wait_result.exc \in {HTTPError, InvalidStatus}

\* C29: wait_for_delivery calls get_message at most
\* ceil(timeout / poll_interval) times, and when it has ended it has returned
\* a DELIVERED message or raised for a FAILED message, a BLOCKED message or
\* the timeout
WaitEndsWithinPolls == PollsWithinBound /\ EndsDeliveredOrRaises
====
